---------------------------- MODULE Spec2Model ----------------------------
(***************************************************************************)
(* A model of levanter's state-dict interchange layer                      *)
(* (src/src/levanter/compat/torch_serialization.py) and of the two         *)
(* contracts its tests exercise (gradient accumulation, resource-partition *)
(* inference).                                                             *)
(*                                                                         *)
(* Python strings are sequences of one-character strings, so that key      *)
(* construction, prefix tests and the block-index pattern are computed     *)
(* character by character.  Python's None is the model value None.         *)
(***************************************************************************)
EXTENDS Integers, Sequences, FiniteSets, TLC

VARIABLES
    \* ---- save_state_dict, one copy of the module state per process ----
    pc,                  \* where each process is inside save_state_dict
    _GLOBAL_SAVE_COUNT,  \* the module-level counter, per process
    calls,               \* number of save_state_dict calls each process started
    returned,            \* number of calls that returned normally
    files,               \* writes of safetensors.numpy.save_file
    entered,             \* barrier names each process presented, in order
    passed,              \* number of barriers each process has left
    \* ---- stack_state_dict / unstack_state_dict ----
    st_prefix,           \* the prefix argument (None or a string)
    st_in,               \* the dict the first call receives
    st_ops,              \* the calls made so far, in order
    st_res,              \* the result of each call (a dict or an error)
    \* ---- the state-dict codec ----
    cd_tree,             \* the module tree that is serialized
    cd_donor,            \* the template tree that is loaded into
    cd_prefix,           \* the prefix argument (None or a string)
    cd_stage,            \* "built", "saved", "loaded"
    cd_saved,            \* error and write log of the serialization
    cd_dict,             \* the state dict
    cd_loaded,           \* the result of jax_tree_from_state_dict
    cd_pre,              \* the caller's dict before an update in place
    \* ---- flatten_linear_layers / unflatten_linear_layers ----
    ln_layer,            \* the linear layer L
    ln_prefix,           \* the prefix argument (None or a string)
    ln_arg,              \* out_dims_first_in_dict given to flatten
    ln_arg2,             \* out_dims_first_in_dict given to unflatten
    ln_stage,            \* "built", "flat", "done"
    ln_flat,             \* the dict flatten_linear_layers returned
    ln_out,              \* the result of unflatten_linear_layers
    \* ---- accumulate_gradients_sharded ----
    ga_batch,            \* the batch: per example, its loss and its gradient
    ga_P,                \* per_device_parallelism
    ga_pos,              \* examples handed to f so far
    ga_seen,             \* how often each example was handed to f
    ga_micro,            \* size, value and gradient of each micro-batch
    ga_acc,              \* accumulated weight, value and gradient
    ga_stage,            \* "running", "done"
    ga_result,           \* the (value, gradient) returned
    \* ---- infer_resource_partitions ----
    pt_tree,             \* the module tree
    pt_mapping,          \* axis name -> mesh axis
    pt_stage,            \* "built", "inferred"
    pt_specs,            \* the tree of partition specs returned
    \* ---- to_numpy_state_dict ----
    tn_model,            \* the model passed in
    tn_prefix,           \* the prefix argument (None or a string)
    tn_cur,              \* the model with the leaves converted so far
    tn_pos,              \* number of fields jax.tree_map has gone past
    tn_how,              \* how each leaf was brought to the host, in order
    tn_stage,            \* "gathering", "serializing", "returned", "raised"
    tn_dict,             \* the state dict returned
    \* ---- dispatch to the nodes' own serialization methods ----
    dp_tree,             \* the tree that is walked
    dp_prefix,           \* the prefix argument (None or a string)
    dp_entry,            \* the function the caller invoked
    dp_stage,            \* "built", "walked"
    dp_calls,            \* the calls of nodes' own methods, in order
    \* ---- unflatten_linear_layers on a tree of layers ----
    ul_layers,           \* the tree: a list of linear layers
    ul_prefix,           \* the prefix argument (None or a string)
    ul_dict,             \* the flat dict the call reads
    ul_arg,              \* out_dims_first_in_dict as the caller passed it
    ul_flag,             \* the closure variable out_dims_first_in_dict
    ul_pos,              \* number of layers jax.tree_map has gone past
    ul_stage,            \* "built", "flat", "walking", "done", "raised"
    ul_out               \* ret_dict, or the error raised

saveVars == <<pc, _GLOBAL_SAVE_COUNT, calls, returned, files, entered, passed>>

stackVars == <<st_prefix, st_in, st_ops, st_res>>

codecVars ==
    <<cd_tree, cd_donor, cd_prefix, cd_stage, cd_saved, cd_dict, cd_loaded, cd_pre>>

linVars == <<ln_layer, ln_prefix, ln_arg, ln_arg2, ln_stage, ln_flat, ln_out>>

accVars == <<ga_batch, ga_P, ga_pos, ga_seen, ga_micro, ga_acc, ga_stage, ga_result>>

partVars == <<pt_tree, pt_mapping, pt_stage, pt_specs>>

numpyVars == <<tn_model, tn_prefix, tn_cur, tn_pos, tn_how, tn_stage, tn_dict>>

dispatchVars == <<dp_tree, dp_prefix, dp_entry, dp_stage, dp_calls>>

treeVars == <<ul_layers, ul_prefix, ul_dict, ul_arg, ul_flag, ul_pos, ul_stage, ul_out>>

vars == <<saveVars, stackVars, codecVars, linVars, accVars, partVars, numpyVars, dispatchVars, treeVars>>

\* what the actions of one component leave alone
notSave == <<stackVars, codecVars, linVars, accVars, partVars, numpyVars, dispatchVars, treeVars>>
notStack == <<saveVars, codecVars, linVars, accVars, partVars, numpyVars, dispatchVars, treeVars>>
notCodec == <<saveVars, stackVars, linVars, accVars, partVars, numpyVars, dispatchVars, treeVars>>
notLin == <<saveVars, stackVars, codecVars, accVars, partVars, numpyVars, dispatchVars, treeVars>>
notAcc == <<saveVars, stackVars, codecVars, linVars, partVars, numpyVars, dispatchVars, treeVars>>
notPart == <<saveVars, stackVars, codecVars, linVars, accVars, numpyVars, dispatchVars, treeVars>>
notNumpy == <<saveVars, stackVars, codecVars, linVars, accVars, partVars, dispatchVars, treeVars>>
notDispatch == <<saveVars, stackVars, codecVars, linVars, accVars, partVars, numpyVars, treeVars>>
notTree == <<saveVars, stackVars, codecVars, linVars, accVars, partVars, numpyVars, dispatchVars>>

\* Python's None where a string is expected: no string has this element
None == <<"None">>

-----------------------------------------------------------------------------
(* Strings                                                                 *)

DigitChars == <<"0", "1", "2", "3", "4", "5", "6", "7", "8", "9">>

IsDigit(c) == \E i \in 1..Len(DigitChars) : DigitChars[i] = c

DigitValue(c) == (CHOOSE i \in 1..Len(DigitChars) : DigitChars[i] = c) - 1

\* str(n) for a natural number: its decimal numeral
RECURSIVE IntToStr(_)
IntToStr(n) ==
    IF n < 10 THEN <<DigitChars[n + 1]>>
    ELSE IntToStr(n \div 10) \o <<DigitChars[(n % 10) + 1]>>

\* int(s) for a non-empty string of digits
RECURSIVE ParseInt(_)
ParseInt(s) ==
    IF Len(s) = 1 THEN DigitValue(s[1])
    ELSE 10 * ParseInt(SubSeq(s, 1, Len(s) - 1)) + DigitValue(s[Len(s)])

StartsWith(s, p) == Len(p) <= Len(s) /\ SubSeq(s, 1, Len(p)) = p

Dot == <<".">>

\* ".".join(parts)
RECURSIVE Join(_)
Join(parts) ==
    IF Len(parts) = 1 THEN parts[1]
    ELSE parts[1] \o Dot \o Join(Tail(parts))

\* apply_prefix(prefix, leaf)
apply_prefix(prefix, leaf) ==
    IF prefix = None THEN leaf
    ELSE IF leaf = None THEN prefix
    ELSE prefix \o Dot \o leaf

-----------------------------------------------------------------------------
(* save_state_dict: the coordinator writes, every process syncs, then the  *)
(* process-wide counter is incremented.                                    *)

NumProcesses == 3
MaxSaves == 2

Procs == 0..(NumProcesses - 1)

\* jax.process_index() == 0
IsCoordinator(p) == p = 0

\* f"local {_GLOBAL_SAVE_COUNT}"
BarrierName(n) == <<"l", "o", "c", "a", "l", " ">> \o IntToStr(n)

\* sync_global_devices blocks until every process has entered its g-th barrier
BarrierOpenAlways(g) == TRUE
BarrierOpen(g) == \A q \in Procs : Len(entered[q]) >= g

\* the name check inside sync_global_devices: the process compares the name
\* it presented with the one process 0 broadcasts
NameAgreed(p) ==
    LET g == Len(entered[p])
    IN  Len(entered[0]) < g \/ entered[p][g] = entered[0][g]

SaveInit ==
    /\ pc = [p \in Procs |-> "idle"]
    /\ _GLOBAL_SAVE_COUNT = [p \in Procs |-> 0]
    /\ calls = [p \in Procs |-> 0]
    /\ returned = [p \in Procs |-> 0]
    /\ files = <<>>
    /\ entered = [p \in Procs |-> <<>>]
    /\ passed = [p \in Procs |-> 0]

SaveIdle == SaveInit

\* a process calls save_state_dict; the None entries are dropped locally
SaveCall(p) ==
    /\ pc[p] = "idle"
    /\ calls[p] < MaxSaves
    /\ calls' = [calls EXCEPT ![p] = @ + 1]
    /\ pc' = [pc EXCEPT ![p] = IF IsCoordinator(p) THEN "write" ELSE "sync"]
    /\ UNCHANGED <<_GLOBAL_SAVE_COUNT, returned, files, entered, passed>>
    /\ UNCHANGED notSave

\* safetensors.numpy.save_file starts writing the file
WriteBegin(p) ==
    /\ pc[p] = "write"
    /\ files' = Append(files, [proc |-> p, call |-> calls[p], done |-> FALSE])
    /\ pc' = [pc EXCEPT ![p] = "writing"]
    /\ UNCHANGED <<_GLOBAL_SAVE_COUNT, calls, returned, entered, passed>>
    /\ UNCHANGED notSave

\* save_file returns: the file is complete
WriteEnd(p) ==
    /\ pc[p] = "writing"
    /\ files' = [files EXCEPT ![Len(files)].done = TRUE]
    /\ pc' = [pc EXCEPT ![p] = "sync"]
    /\ UNCHANGED <<_GLOBAL_SAVE_COUNT, calls, returned, entered, passed>>
    /\ UNCHANGED notSave

\* where a process is after save_file raised: nothing in save_state_dict
\* catches the exception
AfterWriteFailSwallowed == "sync"
AfterWriteFail == "raised"

\* save_file raises: the exception leaves save_state_dict
WriteFail(p) ==
    /\ pc[p] = "writing"
    /\ pc' = [pc EXCEPT ![p] = AfterWriteFail]
    /\ UNCHANGED <<_GLOBAL_SAVE_COUNT, calls, returned, files, entered, passed>>
    /\ UNCHANGED notSave

\* sync_global_devices(name): the process presents the name and blocks
BarrierEnter(p) ==
    /\ pc[p] = "sync"
    /\ entered' = [entered EXCEPT ![p] = Append(@, BarrierName(_GLOBAL_SAVE_COUNT[p]))]
    /\ pc' = [pc EXCEPT ![p] = "wait"]
    /\ UNCHANGED <<_GLOBAL_SAVE_COUNT, calls, returned, files, passed>>
    /\ UNCHANGED notSave

\* the barrier opens once every process is in it; a process whose name
\* differs from the coordinator's fails the name check
BarrierLeave(p) ==
    /\ pc[p] = "wait"
    /\ BarrierOpen(Len(entered[p]))
    /\ passed' = [passed EXCEPT ![p] = @ + 1]
    /\ pc' = [pc EXCEPT ![p] =
                IF NameAgreed(p) THEN "inc" ELSE "raised"]
    /\ UNCHANGED <<_GLOBAL_SAVE_COUNT, calls, returned, files, entered>>
    /\ UNCHANGED notSave

\* _GLOBAL_SAVE_COUNT += 1, and the call returns
CountSame(n) == n
CountNext(n) == n + 1

Increment(p) ==
    /\ pc[p] = "inc"
    /\ _GLOBAL_SAVE_COUNT' = [_GLOBAL_SAVE_COUNT EXCEPT ![p] = CountNext(@)]
    /\ returned' = [returned EXCEPT ![p] = @ + 1]
    /\ pc' = [pc EXCEPT ![p] = "idle"]
    /\ UNCHANGED <<calls, files, entered, passed>>
    /\ UNCHANGED notSave

\* the caller of save_state_dict catches the exception and carries on; it
\* may call save_state_dict again
CallerCatches(p) ==
    /\ pc[p] = "raised"
    /\ pc' = [pc EXCEPT ![p] = "idle"]
    /\ UNCHANGED <<_GLOBAL_SAVE_COUNT, calls, returned, files, entered, passed>>
    /\ UNCHANGED notSave

SaveNext ==
    \E p \in Procs :
        \/ SaveCall(p)
        \/ WriteBegin(p)
        \/ WriteEnd(p)
        \/ WriteFail(p)
        \/ BarrierEnter(p)
        \/ BarrierLeave(p)
        \/ Increment(p)


-----------------------------------------------------------------------------
(* State dicts and tensors.                                                *)
(*                                                                         *)
(* A dict is the sequence of its entries in insertion order, with distinct *)
(* keys.  A tensor is a scalar (nd = 0) or the sequence of its rows along  *)
(* the leading axis; NoneV is a None value.                                *)

NoneV == [nd |-> -1]
Scalar(x) == [nd |-> 0, at |-> x]

HasKey(d, k) == \E i \in 1..Len(d) : d[i].k = k
DictKeys(d) == {d[i].k : i \in 1..Len(d)}
DictGet(d, k) == d[CHOOSE i \in 1..Len(d) : d[i].k = k].v

\* a store that leaves an existing key alone
DictSetKeepFirst(d, k, v) ==
    IF HasKey(d, k) THEN d ELSE Append(d, [k |-> k, v |-> v])

\* d[k] = v: an existing key keeps its place, a new key goes last
DictSet(d, k, v) ==
    IF HasKey(d, k)
    THEN [i \in 1..Len(d) |-> IF d[i].k = k THEN [k |-> k, v |-> v] ELSE d[i]]
    ELSE Append(d, [k |-> k, v |-> v])

\* dict equality: the same keys with the same values, in any order
SameDict(a, b) ==
    /\ DictKeys(a) = DictKeys(b)
    /\ \A k \in DictKeys(a) : DictGet(a, k) = DictGet(b, k)

Ok(d) == [err |-> "", dict |-> d]
Raise(e) == [err |-> e, dict |-> <<>>]

\* numpy's shape of a value; asanyarray(None) is a 0-d object array
RECURSIVE Shape(_)
Shape(t) ==
    IF t.nd <= 0 THEN <<>>
    ELSE IF Len(t.rows) = 0 THEN <<0>>
    ELSE <<Len(t.rows)>> \o Shape(t.rows[1])

\* the array whose rows along the leading axis are the given values
Rows(rows) ==
    [nd |-> IF Len(rows) = 0 THEN 1 ELSE Len(Shape(rows[1])) + 1, rows |-> rows]

\* numpy.stack(tensors, axis=0): the inputs must have one common shape
NumpyStack(tensors) ==
    IF \E i, j \in 1..Len(tensors) : Shape(tensors[i]) # Shape(tensors[j])
    THEN Raise("ValueError")
    ELSE Ok(Rows(tensors))

-----------------------------------------------------------------------------
(* unstack_state_dict                                                      *)

\* for i, v_i in enumerate(v): new_dict[f"{prefix}{i}.{k[len(prefix):]}"] = v_i
RECURSIVE UnstackRows(_, _, _, _, _)
UnstackRows(new_dict, prefix, k, v, i) ==
    IF i > Len(v.rows) THEN new_dict
    ELSE UnstackRows(
            DictSet(new_dict,
                    prefix \o IntToStr(i - 1) \o Dot
                           \o SubSeq(k, Len(prefix) + 1, Len(k)),
                    v.rows[i]),
            prefix, k, v, i + 1)

\* the loop over state_dict.items(), from entry n on
RECURSIVE UnstackFrom(_, _, _, _)
UnstackFrom(state_dict, prefix, n, new_dict) ==
    IF n > Len(state_dict) THEN Ok(new_dict)
    ELSE LET k == state_dict[n].k
             v == state_dict[n].v
         IN  IF StartsWith(k, prefix) /\ v # NoneV
             THEN IF v.nd = 0
                  THEN Raise("TypeError")      \* a 0-d array is not iterable
                  ELSE UnstackFrom(state_dict, prefix, n + 1,
                                   UnstackRows(new_dict, prefix, k, v, 1))
             ELSE UnstackFrom(state_dict, prefix, n + 1, DictSet(new_dict, k, v))

unstack_state_dict(state_dict, prefix) ==
    UnstackFrom(state_dict, apply_prefix(prefix, <<>>), 1, <<>>)

-----------------------------------------------------------------------------
(* stack_state_dict                                                        *)

\* the length of the run of digits at the start of s
RECURSIVE DigitRun(_)
DigitRun(s) ==
    IF Len(s) = 0 \/ ~IsDigit(s[1]) THEN 0 ELSE 1 + DigitRun(Tail(s))

\* pattern.match(k) for rf"{re.escape(prefix or '')}\.(\d+)\.(.*)"
BlockMatch(k, prefix) ==
    LET head == (IF prefix = None THEN <<>> ELSE prefix) \o Dot
        after == SubSeq(k, Len(head) + 1, Len(k))
        n == DigitRun(after)
    IN  IF StartsWith(k, head) /\ n >= 1 /\ Len(after) > n /\ after[n + 1] = "."
        THEN [matched |-> TRUE,
              block_idx |-> ParseInt(SubSeq(after, 1, n)),
              block_key |-> SubSeq(after, n + 2, Len(after))]
        ELSE [matched |-> FALSE, block_idx |-> 0, block_key |-> <<>>]

\* tensors.extend([None] * (block_idx - len(tensors) + 1))
Extend(tensors, block_idx) ==
    IF Len(tensors) <= block_idx
    THEN tensors \o [i \in 1..(block_idx - Len(tensors) + 1) |-> NoneV]
    ELSE tensors

\* tensors[block_idx] = v
PlaceLast(tensors, block_idx, v) == [tensors EXCEPT ![Len(tensors)] = v]
Place(tensors, block_idx, v) == [tensors EXCEPT ![block_idx + 1] = v]

\* the first loop, from entry n on: vd is vectorized_dict, ttv is
\* tensors_to_vectorize (a dict from block key to the list of its tensors)
RECURSIVE StackCollect(_, _, _, _, _)
StackCollect(state_dict, prefix, n, vd, ttv) ==
    IF n > Len(state_dict) THEN [err |-> "", vd |-> vd, ttv |-> ttv]
    ELSE LET k == state_dict[n].k
             v == state_dict[n].v
             m == BlockMatch(k, prefix)
         IN  IF m.matched
             THEN LET old == IF HasKey(ttv, m.block_key)
                             THEN DictGet(ttv, m.block_key) ELSE <<>>
                      tensors == Extend(old, m.block_idx)
                  IN  IF tensors[m.block_idx + 1] # NoneV
                      THEN [err |-> "AssertionError", vd |-> vd, ttv |-> ttv]
                      ELSE StackCollect(state_dict, prefix, n + 1, vd,
                              DictSet(ttv, m.block_key,
                                      Place(tensors, m.block_idx, v)))
             ELSE StackCollect(state_dict, prefix, n + 1, DictSet(vd, k, v), ttv)

\* the second loop: vectorized_dict[apply_prefix(prefix, k)] = numpy.stack(tensors)
RECURSIVE StackVectorize(_, _, _, _)
StackVectorize(ttv, prefix, n, vd) ==
    IF n > Len(ttv) THEN Ok(vd)
    ELSE LET stacked == NumpyStack(ttv[n].v)
         IN  IF stacked.err # "" THEN Raise(stacked.err)
             ELSE StackVectorize(ttv, prefix, n + 1,
                      DictSet(vd, apply_prefix(prefix, ttv[n].k), stacked.dict))

stack_state_dict(state_dict, prefix) ==
    LET c == StackCollect(state_dict, prefix, 1, <<>>, <<>>)
    IN  IF c.err # "" THEN Raise(c.err)
        ELSE StackVectorize(c.ttv, prefix, 1, c.vd)

-----------------------------------------------------------------------------
(* The dicts the two functions are applied to.                             *)

MaxEntries == 2
MaxBlocks == 2

P == <<"p">>
W == <<"w">>

StackKeys ==
    { Join(<<<<"q">>, <<"0">>, W>>),       \* q.0.w   not under the prefix
      Join(<<P, W>>),                      \* p.w
      Join(<<P, <<"0">>, W>>),             \* p.0.w
      Join(<<P, <<"1">>, W>>),             \* p.1.w
      Join(<<P, <<"0", "0">>, W>>),        \* p.00.w  also parses to index 0
      Join(<<P, <<"0">>, <<"0">>, W>>) }   \* p.0.0.w

\* the values an entry may hold: None, a 0-d tensor, or a tensor with
\* 0..MaxBlocks rows; the elements are named after the key, so that no two
\* entries hold equal tensors
StackValues(k) ==
    {NoneV, Scalar(k)}
        \cup { Rows([i \in 1..n |-> Scalar(k \o <<"#">> \o IntToStr(i - 1))]) :
               n \in 0..MaxBlocks }

RECURSIVE DictsUpTo(_)
DictsUpTo(n) ==
    IF n = 0 THEN {<<>>}
    ELSE LET S == DictsUpTo(n - 1)
         IN  S \cup UNION {
                 { Append(dk[1], [k |-> dk[2], v |-> v]) : v \in StackValues(dk[2]) } :
                 dk \in { x \in S \X StackKeys :
                            Len(x[1]) = n - 1 /\ ~HasKey(x[1], x[2]) } }

StackIdle ==
    /\ st_prefix = None
    /\ st_in = <<>>
    /\ st_ops = <<>>
    /\ st_res = <<>>

StackInit ==
    /\ st_prefix \in {None, P}
    /\ st_in \in DictsUpTo(MaxEntries)
    /\ st_ops = <<>>
    /\ st_res = <<>>

\* the dict the next call receives: the input, or the previous result
StackCurrent == IF st_ops = <<>> THEN st_in ELSE st_res[Len(st_res)].dict

CanApply(op) ==
    /\ Len(st_ops) < 2
    /\ st_ops # <<>> => (st_res[1].err = "" /\ st_ops[1] # op)

Unstack ==
    /\ CanApply("unstack")
    /\ st_ops' = Append(st_ops, "unstack")
    /\ st_res' = Append(st_res, unstack_state_dict(StackCurrent, st_prefix))
    /\ UNCHANGED <<st_prefix, st_in>>
    /\ UNCHANGED notStack

Stack ==
    /\ CanApply("stack")
    /\ st_ops' = Append(st_ops, "stack")
    /\ st_res' = Append(st_res, stack_state_dict(StackCurrent, st_prefix))
    /\ UNCHANGED <<st_prefix, st_in>>
    /\ UNCHANGED notStack

StackNext == Unstack \/ Stack

-----------------------------------------------------------------------------
(* Module trees.                                                           *)
(*                                                                         *)
(* A node is a record with a kind: "named" (NamedArray), "plain" (array),  *)
(* "none", "list", "dict" or "module".  A tensor is [lib, data]: the       *)
(* library holding it (numpy or jax.numpy) and its contents.               *)

Tensor(lib, data) == [lib |-> lib, data |-> data]

\* jnp.array(x)
jnp_array(x) == [x EXCEPT !.lib = "jnp"]

NamedArray(array, axes) == [kind |-> "named", array |-> array, axes |-> axes]
PlainArray(array) == [kind |-> "plain", array |-> array]
NoneLeaf == [kind |-> "none"]
ListNode(items) == [kind |-> "list", items |-> items]
DictNode(items) == [kind |-> "dict", items |-> items]

\* a dataclass field; static fields carry eqx.static_field() metadata
Field(name, value) == [name |-> name, static |-> FALSE, value |-> value]
StaticField(name) == [name |-> name, static |-> TRUE, value |-> [kind |-> "static"]]

\* an eqx.Module: its fields in declaration order, what _state_dict_key_map()
\* returns, and whether it inherits StateDictSerializationMixin
Module(fields, key_map, mixin) ==
    [kind |-> "module", fields |-> fields, key_map |-> key_map, mixin |-> mixin]

IsLeaf(t) == t.kind \in {"named", "plain", "none"}

\* key_map.get(field.name, field.name)
KeyMapGet(key_map, name) ==
    IF HasKey(key_map, name) THEN DictGet(key_map, name) ELSE name

\* the key of a field when a module is written to a dict
UpdateKeyUnmapped(mod, name) == name
UpdateKey(mod, name) == KeyMapGet(mod.key_map, name)

\* the key of a field when a module is read from a dict
FromKeyUnmapped(mod, name) == name
FromKey(mod, name) == KeyMapGet(mod.key_map, name)

\* the children a walk descends into, each with its (1-based) position and
\* the prefix it is visited with; dir is "update" or "from"
Kids(tree, prefix, dir) ==
    IF tree.kind = "list"
    THEN [i \in 1..Len(tree.items) |->
            [idx |-> i, pfx |-> apply_prefix(prefix, IntToStr(i - 1)),
             t |-> tree.items[i]]]
    ELSE IF tree.kind = "dict"
    THEN [i \in 1..Len(tree.items) |->
            [idx |-> i, pfx |-> apply_prefix(prefix, tree.items[i].k),
             t |-> tree.items[i].v]]
    ELSE LET all == [i \in 1..Len(tree.fields) |->
                        [idx |-> i,
                         pfx |-> apply_prefix(prefix,
                                    IF dir = "update"
                                    THEN UpdateKey(tree, tree.fields[i].name)
                                    ELSE FromKey(tree, tree.fields[i].name)),
                         t |-> tree.fields[i].value]]
         IN  SelectSeq(all, LAMBDA c : ~tree.fields[c.idx].static)

-----------------------------------------------------------------------------
(* update_state_dict_with_jax_tree / default_update_state_dict_with_eqx_module: *)
(* the assignments state_dict[key] = value the walk makes, in order, up to  *)
(* the first error.                                                         *)

\* a leaf can be addressed when the walk reached it with a prefix
HasPrefixAlways(prefix) == TRUE
HasPrefix(prefix) == prefix # None

RECURSIVE UpdateLog(_, _, _), UpdateKids(_, _, _)

UpdateLog(tree, prefix, path) ==
    IF tree.kind \in {"module", "list", "dict"}
    THEN UpdateKids(Kids(tree, prefix, "update"), path, 1)
    ELSE IF tree.kind = "named"
    THEN IF ~HasPrefix(prefix)
         THEN [err |-> "AssertionError", log |-> <<>>]
         ELSE [err |-> "", log |-> <<[k |-> prefix, v |-> tree.array, path |-> path]>>]
    ELSE IF HasPrefix(prefix)
         THEN IF tree.kind # "none"
              THEN [err |-> "", log |-> <<[k |-> prefix, v |-> tree.array, path |-> path]>>]
              ELSE [err |-> "", log |-> <<>>]
         ELSE [err |-> "ValueError", log |-> <<>>]

UpdateKids(kids, path, n) ==
    IF n > Len(kids) THEN [err |-> "", log |-> <<>>]
    ELSE LET r == UpdateLog(kids[n].t, kids[n].pfx, Append(path, kids[n].idx))
         IN  IF r.err # "" THEN r
             ELSE LET rest == UpdateKids(kids, path, n + 1)
                  IN  [err |-> rest.err, log |-> r.log \o rest.log]

RECURSIVE ApplyWrites(_, _)
ApplyWrites(state_dict, log) ==
    IF log = <<>> THEN state_dict
    ELSE ApplyWrites(DictSet(state_dict, log[1].k, log[1].v), Tail(log))

\* the writes made into a new dict instead of the caller's
update_fresh_dict(tree, state_dict, prefix) ==
    LET r == UpdateLog(tree, prefix, <<>>)
    IN  [err |-> r.err, dict |-> ApplyWrites(<<>>, r.log)]

\* the dict after the call, and the error it raised if any
update_state_dict_with_jax_tree(tree, state_dict, prefix) ==
    LET r == UpdateLog(tree, prefix, <<>>)
    IN  [err |-> r.err, dict |-> ApplyWrites(state_dict, r.log)]

jax_tree_to_state_dict(tree, prefix) ==
    update_state_dict_with_jax_tree(tree, <<>>, prefix)

-----------------------------------------------------------------------------
(* jax_tree_from_state_dict / default_eqx_module_from_state_dict           *)

\* eqx.tree_at / the list and dict comprehensions: the node with the visited
\* children replaced by their new values
Rebuild(tree, kids, new) ==
    LET pos(i) == CHOOSE j \in 1..Len(kids) : kids[j].idx = i
    IN  IF tree.kind = "list" THEN [tree EXCEPT !.items = new]
        ELSE IF tree.kind = "dict"
        THEN [tree EXCEPT !.items =
                [i \in 1..Len(tree.items) |-> [k |-> tree.items[i].k, v |-> new[i]]]]
        ELSE [tree EXCEPT !.fields =
                [i \in 1..Len(tree.fields) |->
                    IF tree.fields[i].static THEN tree.fields[i]
                    ELSE [tree.fields[i] EXCEPT !.value = new[pos(i)]]]]

\* state_dict[prefix] for a tensor leaf
LookupOrDefault(state_dict, prefix, leaf) ==
    IF HasKey(state_dict, prefix)
    THEN [err |-> "", v |-> DictGet(state_dict, prefix)]
    ELSE [err |-> "", v |-> leaf.array]
Lookup(state_dict, prefix, leaf) ==
    IF HasKey(state_dict, prefix)
    THEN [err |-> "", v |-> DictGet(state_dict, prefix)]
    ELSE [err |-> "KeyError", v |-> leaf.array]

RECURSIVE jax_tree_from_state_dict(_, _, _), FromKids(_, _, _)

jax_tree_from_state_dict(tree, state_dict, prefix) ==
    IF tree.kind \in {"module", "list", "dict"}
    THEN LET kids == Kids(tree, prefix, "from")
             r == FromKids(kids, state_dict, 1)
         IN  IF r.err # "" THEN [err |-> r.err, tree |-> NoneLeaf]
             ELSE [err |-> "", tree |-> Rebuild(tree, kids, r.new)]
    ELSE IF tree.kind = "named"
    THEN IF ~HasPrefix(prefix) THEN [err |-> "ValueError", tree |-> NoneLeaf]
         ELSE LET x == Lookup(state_dict, prefix, tree)
              IN  IF x.err # "" THEN [err |-> x.err, tree |-> NoneLeaf]
                  ELSE [err |-> "", tree |-> NamedArray(jnp_array(x.v), tree.axes)]
    ELSE IF tree.kind = "none"
    THEN IF prefix = None \/ ~HasKey(state_dict, prefix)
         THEN [err |-> "", tree |-> NoneLeaf]
         ELSE [err |-> "", tree |-> PlainArray(DictGet(state_dict, prefix))]
    ELSE IF ~HasPrefix(prefix) THEN [err |-> "ValueError", tree |-> NoneLeaf]
         ELSE LET x == Lookup(state_dict, prefix, tree)
              IN  IF x.err # "" THEN [err |-> x.err, tree |-> NoneLeaf]
                  ELSE [err |-> "", tree |-> PlainArray(jnp_array(x.v))]

FromKids(kids, state_dict, n) ==
    IF n > Len(kids) THEN [err |-> "", new |-> <<>>]
    ELSE LET r == jax_tree_from_state_dict(kids[n].t, state_dict, kids[n].pfx)
         IN  IF r.err # "" THEN [err |-> r.err, new |-> <<>>]
             ELSE LET rest == FromKids(kids, state_dict, n + 1)
                  IN  [err |-> rest.err, new |-> <<r.tree>> \o rest.new]

-----------------------------------------------------------------------------
(* The trees the codec is applied to.                                      *)

MaxDepth == 2

A == <<"a">>
B == <<"b">>
F == <<"f">>
G == <<"g">>
H == <<"h">>
Unset == Tensor("jnp", <<>>)
Axes == <<"X">>

LeafShapes == {NamedArray(Unset, Axes), PlainArray(Unset), NoneLeaf}

KeyMaps == { <<[k |-> F, v |-> H]>>,       \* {"f": "h"}
             <<[k |-> F, v |-> G]>>,       \* {"f": "g"}, the name of the next field
             <<[k |-> F, v |-> None]>> }   \* {"f": None}

\* the containers with c as their first (or only) non-trivial child
Wrap(c) ==
    { ListNode(<<c>>),
      ListNode(<<PlainArray(Unset), c>>),
      DictNode(<<[k |-> A, v |-> c]>>),
      DictNode(<<[k |-> B, v |-> c]>>),
      DictNode(<<[k |-> A, v |-> c], [k |-> Join(<<A, B>>), v |-> PlainArray(Unset)]>>),
      Module(<<Field(F, c), Field(G, NoneLeaf), StaticField(H)>>, <<>>, FALSE) }
    \cup { Module(<<Field(F, c), Field(G, PlainArray(Unset)), StaticField(H)>>, km, TRUE) :
           km \in KeyMaps }

RECURSIVE TreesUpTo(_)
TreesUpTo(d) ==
    IF d = 0 THEN LeafShapes
    ELSE LeafShapes \cup UNION { Wrap(c) : c \in TreesUpTo(d - 1) }

\* the tree with every tensor leaf holding a tensor named after its path
RECURSIVE Label(_, _, _)
Label(tree, lib, data) ==
    IF tree.kind \in {"named", "plain"}
    THEN [tree EXCEPT !.array = Tensor(lib, data)]
    ELSE IF tree.kind = "list"
    THEN [tree EXCEPT !.items =
            [i \in 1..Len(tree.items) |->
                Label(tree.items[i], lib, data \o IntToStr(i))]]
    ELSE IF tree.kind = "dict"
    THEN [tree EXCEPT !.items =
            [i \in 1..Len(tree.items) |->
                [k |-> tree.items[i].k,
                 v |-> Label(tree.items[i].v, lib, data \o IntToStr(i))]]]
    ELSE IF tree.kind = "module"
    THEN [tree EXCEPT !.fields =
            [i \in 1..Len(tree.fields) |->
                IF tree.fields[i].static THEN tree.fields[i]
                ELSE [tree.fields[i] EXCEPT
                        !.value = Label(tree.fields[i].value, lib, data \o IntToStr(i))]]]
    ELSE tree

NoResult == [err |-> "", tree |-> NoneLeaf]
NoLog == [err |-> "", log |-> <<>>]

CodecIdle ==
    /\ cd_tree = NoneLeaf
    /\ cd_donor = NoneLeaf
    /\ cd_prefix = None
    /\ cd_stage = "idle"
    /\ cd_saved = NoLog
    /\ cd_dict = <<>>
    /\ cd_loaded = NoResult
    /\ cd_pre = <<>>

\* a tree, held in numpy or jax arrays, and a donor of the same structure
\* with other leaf values
CodecInit ==
    /\ \E shape \in TreesUpTo(MaxDepth), lib \in {"jnp", "np"} :
          /\ cd_tree = Label(shape, lib, <<"t">>)
          /\ cd_donor = Label(shape, "jnp", <<"d">>)
    /\ cd_prefix \in {None, P}
    /\ cd_stage = "built"
    /\ cd_saved = NoLog
    /\ cd_dict = <<>>
    /\ cd_loaded = NoResult
    /\ cd_pre = <<>>

\* the keys a walk of the tree computes, those of None leaves and of static
\* fields included
RECURSIVE WalkKeys(_, _)
WalkKeys(tree, prefix) ==
    IF tree.kind = "list"
    THEN UNION { WalkKeys(tree.items[i], apply_prefix(prefix, IntToStr(i - 1))) :
                 i \in 1..Len(tree.items) }
    ELSE IF tree.kind = "dict"
    THEN UNION { WalkKeys(tree.items[i].v, apply_prefix(prefix, tree.items[i].k)) :
                 i \in 1..Len(tree.items) }
    ELSE IF tree.kind = "module"
    THEN UNION { WalkKeys(tree.fields[i].value,
                          apply_prefix(prefix, KeyMapGet(tree.key_map, tree.fields[i].name))) :
                 i \in 1..Len(tree.fields) }
    ELSE IF prefix = None THEN {} ELSE {prefix}

Q == <<"q">>
OldTensor == Tensor("np", <<"o">>)

\* the dicts a caller passes to an update: empty, one entry under a key of
\* the tree or under an unrelated key, or an entry under each of them
PreDicts(tree, prefix) ==
    LET keys == WalkKeys(tree, prefix) \cup {Q}
        RECURSIVE AsDict(_)
        AsDict(ks) ==
            IF ks = {} THEN <<>>
            ELSE LET k == CHOOSE x \in ks : TRUE
                 IN  <<[k |-> k, v |-> OldTensor]>> \o AsDict(ks \ {k})
    IN  {<<>>, AsDict(keys)} \cup { <<[k |-> k, v |-> OldTensor]>> : k \in keys }

\* jax_tree_to_state_dict(tree, prefix): a fresh dict is filled
Serialize ==
    /\ cd_stage = "built"
    /\ cd_saved' = UpdateLog(cd_tree, cd_prefix, <<>>)
    /\ cd_dict' = update_state_dict_with_jax_tree(cd_tree, <<>>, cd_prefix).dict
    /\ cd_stage' = "saved"
    /\ UNCHANGED <<cd_tree, cd_donor, cd_prefix, cd_loaded, cd_pre>>
    /\ UNCHANGED notCodec

\* update_state_dict_with_jax_tree(tree, D, prefix) on a dict D the caller
\* already holds; an error leaves the writes made before it
Update(D) ==
    /\ cd_stage = "built"
    /\ cd_pre' = D
    /\ cd_saved' = UpdateLog(cd_tree, cd_prefix, <<>>)
    /\ cd_dict' = update_state_dict_with_jax_tree(cd_tree, D, cd_prefix).dict
    /\ cd_stage' = "updated"
    /\ UNCHANGED <<cd_tree, cd_donor, cd_prefix, cd_loaded>>
    /\ UNCHANGED notCodec

\* the dict reaches the loader with one key missing
DropKey(k) ==
    /\ cd_stage = "saved"
    /\ cd_dict = ApplyWrites(<<>>, cd_saved.log)
    /\ HasKey(cd_dict, k)
    /\ cd_dict' = SelectSeq(cd_dict, LAMBDA e : e.k # k)
    /\ UNCHANGED <<cd_tree, cd_donor, cd_prefix, cd_stage, cd_saved, cd_loaded, cd_pre>>
    /\ UNCHANGED notCodec

\* jax_tree_from_state_dict(donor, state_dict, prefix)
Load ==
    /\ cd_stage = "saved"
    /\ cd_loaded' = jax_tree_from_state_dict(cd_donor, cd_dict, cd_prefix)
    /\ cd_stage' = "loaded"
    /\ UNCHANGED <<cd_tree, cd_donor, cd_prefix, cd_saved, cd_dict, cd_pre>>
    /\ UNCHANGED notCodec

CodecNext ==
    \/ Serialize
    \/ \E D \in PreDicts(cd_tree, cd_prefix) : Update(D)
    \/ \E k \in DictKeys(cd_dict) : DropKey(k)
    \/ Load

-----------------------------------------------------------------------------
(* Linear layers: named arrays, flatten_linear_layers and                  *)
(* unflatten_linear_layers.  An array is its shape and its elements in     *)
(* row-major order; a named array carries an Axis (name, size) per         *)
(* dimension.                                                              *)

Axis(name, size) == [name |-> name, size |-> size]

Sizes(axes) == [i \in 1..Len(axes) |-> axes[i].size]

Names(axes) == [i \in 1..Len(axes) |-> axes[i].name]

RECURSIVE Prod(_)
Prod(sizes) == IF sizes = <<>> THEN 1 ELSE Head(sizes) * Prod(Tail(sizes))

Front(s) == SubSeq(s, 1, Len(s) - 1)

\* the multi-index of row-major position j (from 0), and back
RECURSIVE Unravel(_, _)
Unravel(j, sizes) ==
    IF sizes = <<>> THEN <<>>
    ELSE Append(Unravel(j \div sizes[Len(sizes)], Front(sizes)), j % sizes[Len(sizes)])

RECURSIVE Ravel(_, _)
Ravel(idx, sizes) ==
    IF sizes = <<>> THEN 0
    ELSE Ravel(Front(idx), Front(sizes)) * sizes[Len(sizes)] + idx[Len(idx)]

AxisIndex(axes, name) == CHOOSE i \in 1..Len(axes) : axes[i].name = name

\* NamedArray.array
RawOf(arr) == [shape |-> Sizes(arr.axes), data |-> arr.data]

\* NamedArray.rearrange(names): the same elements with the axes in the
\* order given
rearrange(arr, names) ==
    LET new_axes == [k \in 1..Len(names) |-> arr.axes[AxisIndex(arr.axes, names[k])]]
        new_sizes == Sizes(new_axes)
        old_sizes == Sizes(arr.axes)
    IN  [axes |-> new_axes,
         data |-> [j \in 1..Prod(new_sizes) |->
                     LET nidx == Unravel(j - 1, new_sizes)
                         oidx == [i \in 1..Len(arr.axes) |->
                                    nidx[AxisIndex(new_axes, arr.axes[i].name)]]
                     IN  arr.data[Ravel(oidx, old_sizes) + 1]]]

\* NamedArray.rearrange((..., a, b)): the other axes keep their order and
\* come first
rearrange_last(arr, tail) ==
    rearrange(arr,
        SelectSeq(Names(arr.axes), LAMBDA n : \A i \in 1..Len(tail) : tail[i] # n) \o tail)

\* NamedArray.flatten_axes(old_axes, new_axis): the old axes are brought
\* together, in the order given, where the first of them stands, and merged
flatten_axes(arr, old_axes, new_axis) ==
    LET old_names == Names(old_axes)
        IsOld(n) == \E i \in 1..Len(old_names) : old_names[i] = n
        first == CHOOSE i \in 1..Len(arr.axes) :
                    /\ IsOld(arr.axes[i].name)
                    /\ \A h \in 1..(i - 1) : ~IsOld(arr.axes[h].name)
        before == SelectSeq(SubSeq(Names(arr.axes), 1, first - 1), LAMBDA n : ~IsOld(n))
        after == SelectSeq(SubSeq(Names(arr.axes), first + 1, Len(arr.axes)),
                           LAMBDA n : ~IsOld(n))
        moved == rearrange(arr, before \o old_names \o after)
        merged == Axis(new_axis, Prod(Sizes(old_axes)))
    IN  [axes |-> SubSeq(moved.axes, 1, Len(before)) \o <<merged>>
                    \o SubSeq(moved.axes, Len(before) + Len(old_names) + 1, Len(moved.axes)),
         data |-> moved.data]

\* NamedArray.unflatten_axis(axis, new_axes): the axis is split in place;
\* the reshape needs the sizes to agree
CanUnflatten(arr, axis, new_axes) ==
    arr.axes[AxisIndex(arr.axes, axis)].size = Prod(Sizes(new_axes))

unflatten_axis(arr, axis, new_axes) ==
    LET at == AxisIndex(arr.axes, axis)
    IN  [axes |-> SubSeq(arr.axes, 1, at - 1) \o new_axes
                    \o SubSeq(arr.axes, at + 1, Len(arr.axes)),
         data |-> arr.data]

\* hax.named(raw, extra_dims + names): an Axis must agree with the
\* array's shape, a bare name takes its size from it
CanName(raw, extra_dims, names) ==
    /\ Len(raw.shape) = Len(extra_dims) + Len(names)
    /\ \A i \in 1..Len(extra_dims) : raw.shape[i] = extra_dims[i].size

named(raw, extra_dims, names) ==
    [axes |-> extra_dims
                \o [i \in 1..Len(names) |-> Axis(names[i], raw.shape[Len(extra_dims) + i])],
     data |-> raw.data]

OUT == "__OUT__"
IN_ == "__IN__"

NoBias == [none |-> TRUE]

\* hnn.Linear: the weight has the extra (leading) axes, then Out + In when
\* out_first and In + Out otherwise; the bias has the extra axes and Out
Linear(extra, In, Out, out_first, has_bias) ==
    LET w_axes == extra \o (IF out_first THEN Out \o In ELSE In \o Out)
        b_axes == extra \o Out
        n == Prod(Sizes(w_axes))
    IN  [In |-> In, Out |-> Out, out_first |-> out_first,
         weight |-> [axes |-> w_axes, data |-> [j \in 1..n |-> j]],
         bias |-> IF has_bias
                  THEN [axes |-> b_axes, data |-> [j \in 1..Prod(Sizes(b_axes)) |-> n + j]]
                  ELSE NoBias]

WEIGHT == <<"w", "e", "i", "g", "h", "t">>
BIAS == <<"b", "i", "a", "s">>

\* the order flatten gives the flat weight for each out_dims_first_in_dict
FlatOrderAsIs(weight, out_dims_first_in_dict) == weight

FlatOrder(weight, out_dims_first_in_dict) ==
    IF out_dims_first_in_dict = "True" THEN rearrange_last(weight, <<OUT, IN_>>)
    ELSE IF out_dims_first_in_dict = "False" THEN rearrange_last(weight, <<IN_, OUT>>)
    ELSE weight

\* flatten_linear_layers(prefix, layer, out_dims_first_in_dict)
flatten_linear_layers(prefix, layer, out_dims_first_in_dict) ==
    LET weight == FlatOrder(
                      flatten_axes(flatten_axes(layer.weight, layer.Out, OUT), layer.In, IN_),
                      out_dims_first_in_dict)
        with_weight == DictSet(<<>>, apply_prefix(prefix, WEIGHT), RawOf(weight))
    IN  IF layer.bias = NoBias THEN with_weight
        ELSE DictSet(with_weight, apply_prefix(prefix, BIAS),
                     RawOf(flatten_axes(layer.bias, layer.Out, OUT)))

\* unflatten_linear_layers(prefix, statedict, layer, out_dims_first_in_dict)
unflatten_linear_layers(prefix, statedict, layer, out_dims_first_in_dict) ==
    LET raw_weight == DictGet(statedict, apply_prefix(prefix, WEIGHT))
        has_bias == HasKey(statedict, apply_prefix(prefix, BIAS))
        raw_bias == DictGet(statedict, apply_prefix(prefix, BIAS))
        InOut == layer.In \o layer.Out
        extra_dims == SelectSeq(layer.weight.axes,
                                LAMBDA ax : \A i \in 1..Len(InOut) : InOut[i] # ax)
        out_first == IF out_dims_first_in_dict = "None" THEN layer.out_first
                     ELSE out_dims_first_in_dict = "True"
        flat_names == IF out_first THEN <<OUT, IN_>> ELSE <<IN_, OUT>>
        flat == named(raw_weight, extra_dims, flat_names)
        ordered == IF layer.out_first THEN rearrange_last(flat, <<OUT, IN_>>)
                   ELSE rearrange_last(flat, <<IN_, OUT>>)
        weight == unflatten_axis(unflatten_axis(ordered, OUT, layer.Out), IN_, layer.In)
        flat_bias == named(raw_bias, extra_dims, <<OUT>>)
        bias == unflatten_axis(flat_bias, OUT, layer.Out)
        with_weight == DictSet(<<>>, apply_prefix(prefix, WEIGHT), RawOf(weight))
    IN  IF ~HasKey(statedict, apply_prefix(prefix, WEIGHT)) THEN Raise("KeyError")
        ELSE IF ~CanName(raw_weight, extra_dims, flat_names) THEN Raise("ValueError")
        ELSE IF ~CanUnflatten(ordered, OUT, layer.Out) \/ ~CanUnflatten(ordered, IN_, layer.In)
        THEN Raise("ValueError")
        ELSE IF ~has_bias THEN Ok(with_weight)
        ELSE IF ~CanName(raw_bias, extra_dims, <<OUT>>) THEN Raise("ValueError")
        ELSE IF ~CanUnflatten(flat_bias, OUT, layer.Out) THEN Raise("ValueError")
        ELSE Ok(DictSet(with_weight, apply_prefix(prefix, BIAS), RawOf(bias)))

\* ---- the layers and calls explored ----

MaxAxisSize == 2

AxisSizes == 1..MaxAxisSize

\* one or two axes with the names given, of every size
AxisGroups(n1, n2) ==
    { <<Axis(n1, a)>> : a \in AxisSizes }
        \cup { <<Axis(n1, a), Axis(n2, b)>> : a \in AxisSizes, b \in AxisSizes }

ExtraGroups == {<<>>} \cup { <<Axis("E", a)>> : a \in AxisSizes }

OutFirstArgs == {"True", "False", "None"}

LinIdle ==
    /\ ln_layer = NoBias
    /\ ln_prefix = None
    /\ ln_arg = "None"
    /\ ln_arg2 = "None"
    /\ ln_stage = "idle"
    /\ ln_flat = <<>>
    /\ ln_out = Ok(<<>>)

LinInit ==
    /\ \E extra \in ExtraGroups, In \in AxisGroups("A", "B"), Out \in AxisGroups("C", "D"),
          out_first \in BOOLEAN, has_bias \in BOOLEAN :
          ln_layer = Linear(extra, In, Out, out_first, has_bias)
    /\ ln_prefix \in {None, P}
    /\ ln_arg \in OutFirstArgs
    /\ ln_arg2 = "None"
    /\ ln_stage = "built"
    /\ ln_flat = <<>>
    /\ ln_out = Ok(<<>>)

Flatten ==
    /\ ln_stage = "built"
    /\ ln_flat' = flatten_linear_layers(ln_prefix, ln_layer, ln_arg)
    /\ ln_stage' = "flat"
    /\ UNCHANGED <<ln_layer, ln_prefix, ln_arg, ln_arg2, ln_out>>
    /\ UNCHANGED notLin

\* the caller passes the flattened dict and the layer itself as the exemplar
Unflatten(out_dims_first_in_dict) ==
    /\ ln_stage = "flat"
    /\ ln_arg2' = out_dims_first_in_dict
    /\ ln_out' = unflatten_linear_layers(ln_prefix, ln_flat, ln_layer, out_dims_first_in_dict)
    /\ ln_stage' = "done"
    /\ UNCHANGED <<ln_layer, ln_prefix, ln_arg, ln_flat>>
    /\ UNCHANGED notLin

LinNext == Flatten \/ \E a \in OutFirstArgs : Unflatten(a)

-----------------------------------------------------------------------------
(* Sharded gradient accumulation (levanter.grad_accum), from its contract: *)
(* the batch is cut into sequential micro-batches of per_device_parallelism*)
(* examples (the last one may be smaller), f is called on each, and the    *)
(* values and gradients are averaged weighted by micro-batch size.  f is a *)
(* mean over the examples of its batch, as the loss of the test is.        *)
(* Values are exact fractions.                                             *)

Frac(num, den) == [num |-> num, den |-> den]

FracAdd(x, y) == Frac(x.num * y.den + y.num * x.den, x.den * y.den)

FracScale(k, x) == Frac(k * x.num, x.den)

FracDiv(x, k) == Frac(x.num, x.den * k)

FracEq(x, y) == x.num * y.den = y.num * x.den

RECURSIVE SumLoss(_), SumGrad(_)
SumLoss(batch) == IF batch = <<>> THEN 0 ELSE Head(batch).loss + SumLoss(Tail(batch))
SumGrad(batch) == IF batch = <<>> THEN 0 ELSE Head(batch).grad + SumGrad(Tail(batch))

\* f(params, batch) -> (value, grad): the mean loss of the batch and the
\* gradient of that mean
GradFn(batch) ==
    [value |-> Frac(SumLoss(batch), Len(batch)), grad |-> Frac(SumGrad(batch), Len(batch))]

CeilDiv(n, p) == (n + p - 1) \div p

Min(a, b) == IF a <= b THEN a ELSE b

\* the weight a micro-batch of n examples gets in the average
WeightAssumeFull(n, p) == p

Weight(n, p) == n

MaxBatch == 4

\* what an example contributes: its loss and its gradient
Examples == { [loss |-> 0, grad |-> 1], [loss |-> 1, grad |-> 0],
              [loss |-> 3, grad |-> -2], [loss |-> 2, grad |-> 2] }

RECURSIVE BatchesOf(_)
BatchesOf(n) ==
    IF n = 0 THEN {<<>>}
    ELSE { Append(b, e) : b \in BatchesOf(n - 1), e \in Examples }

NoValue == [value |-> Frac(0, 1), grad |-> Frac(0, 1)]

NoAcc == [weight |-> 0, value |-> Frac(0, 1), grad |-> Frac(0, 1)]

AccIdle ==
    /\ ga_batch = <<>>
    /\ ga_P = 1
    /\ ga_pos = 0
    /\ ga_seen = <<>>
    /\ ga_micro = <<>>
    /\ ga_acc = NoAcc
    /\ ga_stage = "idle"
    /\ ga_result = NoValue

AccInit ==
    /\ \E n \in 1..MaxBatch : ga_batch \in BatchesOf(n)
    /\ ga_P \in 1..MaxBatch
    /\ ga_pos = 0
    /\ ga_seen = [e \in 1..Len(ga_batch) |-> 0]
    /\ ga_micro = <<>>
    /\ ga_acc = NoAcc
    /\ ga_stage = "running"
    /\ ga_result = NoValue

\* the next micro-batch: the next per_device_parallelism examples, or what
\* is left of the batch
MicroBatch ==
    /\ ga_stage = "running"
    /\ ga_pos < Len(ga_batch)
    /\ LET n == Min(ga_P, Len(ga_batch) - ga_pos)
           out == GradFn(SubSeq(ga_batch, ga_pos + 1, ga_pos + n))
           w == Weight(n, ga_P)
       IN  /\ ga_pos' = ga_pos + n
           /\ ga_seen' = [e \in 1..Len(ga_batch) |->
                            IF e > ga_pos /\ e <= ga_pos + n THEN ga_seen[e] + 1
                            ELSE ga_seen[e]]
           /\ ga_micro' = Append(ga_micro, [size |-> n, value |-> out.value, grad |-> out.grad])
           /\ ga_acc' = [weight |-> ga_acc.weight + w,
                         value |-> FracAdd(ga_acc.value, FracScale(w, out.value)),
                         grad |-> FracAdd(ga_acc.grad, FracScale(w, out.grad))]
    /\ UNCHANGED <<ga_batch, ga_P, ga_stage, ga_result>>
    /\ UNCHANGED notAcc

\* after the last micro-batch the weighted sums are averaged and returned
AccReturn ==
    /\ ga_stage = "running"
    /\ ga_pos = Len(ga_batch)
    /\ ga_result' = [value |-> FracDiv(ga_acc.value, ga_acc.weight),
                     grad |-> FracDiv(ga_acc.grad, ga_acc.weight)]
    /\ ga_stage' = "done"
    /\ UNCHANGED <<ga_batch, ga_P, ga_pos, ga_seen, ga_micro, ga_acc>>
    /\ UNCHANGED notAcc

AccNext == MicroBatch \/ AccReturn

-----------------------------------------------------------------------------
(* Resource-partition inference (levanter.axis_names), from its contract   *)
(* and its test: each axis of a named leaf gets the mesh axis the mapping  *)
(* binds its name to, or None; a plain leaf gets no partitioning.          *)

DATA == "data"
MODEL == "model"
Unbound == "None"

AxisNames == {"dim1", "dim2", "dim3"}

MeshAxes == {DATA, MODEL}

NamedLeaf(axes) == [kind |-> "named", axes |-> axes]
UnnamedLeaf == [kind |-> "plain"]
PartModule(fields) == [kind |-> "module", fields |-> fields]

PartitionSpec(entries) == [kind |-> "spec", entries |-> entries]
Replicated == [kind |-> "replicated"]

\* the mesh axis bound to an axis name
BoundToNothing(mapping, name) == Unbound

BoundTo(mapping, name) == IF name \in DOMAIN mapping THEN mapping[name] ELSE Unbound

RECURSIVE infer_resource_partitions(_, _)
infer_resource_partitions(tree, mapping) ==
    IF tree.kind = "named"
    THEN PartitionSpec([i \in 1..Len(tree.axes) |-> BoundTo(mapping, tree.axes[i])])
    ELSE IF tree.kind = "plain" THEN Replicated
    ELSE [kind |-> "module",
          fields |-> [i \in 1..Len(tree.fields) |->
                        infer_resource_partitions(tree.fields[i], mapping)]]

MaxFields == 2

\* the axis tuples of the named leaves: the names are distinct
AxisTuples ==
    { <<a>> : a \in AxisNames }
        \cup { t \in { <<a, b>> : a \in AxisNames, b \in AxisNames } : t[1] # t[2] }
        \cup { t \in { <<a, b, c>> : a \in AxisNames, b \in AxisNames, c \in AxisNames } :
                 t[1] # t[2] /\ t[1] # t[3] /\ t[2] # t[3] }

PartLeaves == { NamedLeaf(t) : t \in AxisTuples } \cup {UnnamedLeaf}

\* a field holds a leaf or a nested module
PartFields ==
    PartLeaves
        \cup { PartModule(<<l>>) :
                 l \in {NamedLeaf(<<"dim1", "dim2", "dim3">>), NamedLeaf(<<"dim3">>), UnnamedLeaf} }

RECURSIVE FieldsOf(_)
FieldsOf(n) ==
    IF n = 0 THEN {<<>>}
    ELSE { Append(fs, f) : fs \in FieldsOf(n - 1), f \in PartFields }

Mappings == UNION { [S -> MeshAxes] : S \in SUBSET AxisNames }

PartIdle ==
    /\ pt_tree = Replicated
    /\ pt_mapping = <<>>
    /\ pt_stage = "idle"
    /\ pt_specs = Replicated

PartInit ==
    /\ \E n \in 1..MaxFields : \E fs \in FieldsOf(n) : pt_tree = PartModule(fs)
    /\ pt_mapping \in Mappings
    /\ pt_stage = "built"
    /\ pt_specs = Replicated

Infer ==
    /\ pt_stage = "built"
    /\ pt_specs' = infer_resource_partitions(pt_tree, pt_mapping)
    /\ pt_stage' = "inferred"
    /\ UNCHANGED <<pt_tree, pt_mapping>>
    /\ UNCHANGED notPart

PartNext == Infer

-----------------------------------------------------------------------------
(* to_numpy_state_dict: every leaf of the model is brought to this         *)
(* process's host memory, then the model is serialized.  A tensor's lib    *)
(* says where it lives: "np" (a numpy array on the host), "cpu" (a jax     *)
(* array on this process's CPU device), "dev" (a jax array on devices this *)
(* process addresses) or "sharded" (a jax array that spans devices of      *)
(* other processes).                                                       *)

Placements == {"np", "cpu", "dev", "sharded"}

\* the branch of get_to_cpu an array takes
GetToCpuBranch(arr) ==
    IF arr.lib = "np" THEN "as-is"
    ELSE IF arr.lib = "cpu" THEN "copy"
    ELSE IF arr.lib = "dev" THEN "copy"
    ELSE "allgather"

\* get_to_cpu(arr): a numpy array with the contents of the whole array
get_to_cpu(arr) == [arr EXCEPT !.lib = "np"]

MaxLeaves == 3

FieldNames == <<F, G, H, A, B>>

TnLeaves ==
    { NamedArray(Tensor(pl, <<"t">>), Axes) : pl \in Placements }
        \cup { PlainArray(Tensor(pl, <<"t">>)) : pl \in Placements }
        \cup { NoneLeaf }

RECURSIVE TnFields(_)
TnFields(n) ==
    IF n = 0 THEN {<<>>}
    ELSE { Append(fs, Field(FieldNames[n], [l EXCEPT !.array.data = <<"t">> \o IntToStr(n)])) :
             fs \in TnFields(n - 1), l \in TnLeaves \ {NoneLeaf} }
         \cup { Append(fs, Field(FieldNames[n], NoneLeaf)) : fs \in TnFields(n - 1) }

NumpyIdle ==
    /\ tn_model = NoneLeaf
    /\ tn_prefix = None
    /\ tn_cur = NoneLeaf
    /\ tn_pos = 0
    /\ tn_how = <<>>
    /\ tn_stage = "idle"
    /\ tn_dict = <<>>

NumpyInit ==
    /\ \E n \in 1..MaxLeaves : \E fs \in TnFields(n) : tn_model = Module(fs, <<>>, TRUE)
    /\ tn_prefix \in {None, P}
    /\ tn_cur = tn_model
    /\ tn_pos = 0
    /\ tn_how = <<>>
    /\ tn_stage = "gathering"
    /\ tn_dict = <<>>

TnNextLeaf == tn_cur.fields[tn_pos + 1].value

TnConverted(leaf) ==
    [tn_cur EXCEPT !.fields[tn_pos + 1].value = leaf]

\* jax.tree_map has been entered
TreeMapStarted == TRUE

\* jax.tree_map has returned: get_to_cpu was applied to every leaf
TreeMapDone == tn_pos = Len(tn_model.fields)

\* jax.tree_map goes past a None: it is no leaf
SkipNone ==
    /\ tn_stage = "gathering"
    /\ tn_pos < Len(tn_model.fields)
    /\ TnNextLeaf.kind = "none"
    /\ tn_pos' = tn_pos + 1
    /\ UNCHANGED <<tn_model, tn_prefix, tn_cur, tn_how, tn_stage, tn_dict>>
    /\ UNCHANGED notNumpy

\* get_to_cpu on a leaf this process can read by itself
ConvertLocal ==
    /\ tn_stage = "gathering"
    /\ tn_pos < Len(tn_model.fields)
    /\ TnNextLeaf.kind # "none"
    /\ GetToCpuBranch(TnNextLeaf.array) # "allgather"
    /\ tn_cur' = TnConverted([TnNextLeaf EXCEPT !.array = get_to_cpu(TnNextLeaf.array)])
    /\ tn_how' = Append(tn_how, [field |-> tn_pos + 1, how |-> GetToCpuBranch(TnNextLeaf.array)])
    /\ tn_pos' = tn_pos + 1
    /\ UNCHANGED <<tn_model, tn_prefix, tn_stage, tn_dict>>
    /\ UNCHANGED notNumpy

\* get_to_cpu on a leaf spread over processes: process_allgather returns
AllGather ==
    /\ tn_stage = "gathering"
    /\ tn_pos < Len(tn_model.fields)
    /\ TnNextLeaf.kind # "none"
    /\ GetToCpuBranch(TnNextLeaf.array) = "allgather"
    /\ tn_cur' = TnConverted([TnNextLeaf EXCEPT !.array = get_to_cpu(TnNextLeaf.array)])
    /\ tn_how' = Append(tn_how, [field |-> tn_pos + 1, how |-> "allgather"])
    /\ tn_pos' = tn_pos + 1
    /\ UNCHANGED <<tn_model, tn_prefix, tn_stage, tn_dict>>
    /\ UNCHANGED notNumpy

\* process_allgather raises: the exception leaves to_numpy_state_dict
AllGatherFail ==
    /\ tn_stage = "gathering"
    /\ tn_pos < Len(tn_model.fields)
    /\ TnNextLeaf.kind # "none"
    /\ GetToCpuBranch(TnNextLeaf.array) = "allgather"
    /\ tn_stage' = "raised"
    /\ UNCHANGED <<tn_model, tn_prefix, tn_cur, tn_pos, tn_how, tn_dict>>
    /\ UNCHANGED notNumpy

\* model.to_state_dict(prefix=prefix) is called on the mapped model
ToStateDictCall ==
    /\ tn_stage = "gathering"
    /\ TreeMapDone
    /\ tn_stage' = "serializing"
    /\ UNCHANGED <<tn_model, tn_prefix, tn_cur, tn_pos, tn_how, tn_dict>>
    /\ UNCHANGED notNumpy

\* to_state_dict returns and its dict is returned to the caller
ToStateDictReturn ==
    /\ tn_stage = "serializing"
    /\ LET r == jax_tree_to_state_dict(tn_cur, tn_prefix)
       IN  IF r.err = ""
           THEN tn_dict' = r.dict /\ tn_stage' = "returned"
           ELSE tn_dict' = <<>> /\ tn_stage' = "raised"
    /\ UNCHANGED <<tn_model, tn_prefix, tn_cur, tn_pos, tn_how>>
    /\ UNCHANGED notNumpy

NumpyNext ==
    \/ SkipNone
    \/ ConvertLocal
    \/ AllGather
    \/ AllGatherFail
    \/ ToStateDictCall
    \/ ToStateDictReturn

-----------------------------------------------------------------------------
(* Dispatch to a node's own methods.  A module class may define            *)
(* to_state_dict, update_state_dict and from_state_dict itself; what such a *)
(* method does is the class's business, so the walk records the call and    *)
(* does not look inside the node.                                           *)

Methods == {"to_state_dict", "update_state_dict", "from_state_dict"}

\* a module whose class defines the given methods itself
CustomModule(fields, defines, mixin) ==
    [kind |-> "module", fields |-> fields, key_map |-> <<>>, mixin |-> mixin,
     defines |-> defines]

\* hasattr(tree, method): defined by the class or inherited from the mixin
HasMethod(tree, method) == method \in tree.defines \/ tree.mixin

\* the method the walk looks up on a module node; dir is "update" or "from"
WalkMethod(dir) == IF dir = "update" THEN "update_state_dict" ELSE "from_state_dict"

RECURSIVE WalkCalls(_, _, _, _), WalkKidsCalls(_, _, _, _)

\* the calls of nodes' own methods made by update_state_dict_with_jax_tree
\* (dir = "update") or jax_tree_from_state_dict (dir = "from")
WalkCalls(tree, prefix, dir, path) ==
    IF tree.kind = "module"
    THEN IF HasMethod(tree, WalkMethod(dir))
         THEN IF WalkMethod(dir) \in tree.defines
              THEN <<[method |-> WalkMethod(dir), path |-> path, prefix |-> prefix]>>
              \* the mixin's method is the structural default
              ELSE WalkKidsCalls(Kids(tree, prefix, dir), dir, path, 1)
         ELSE WalkKidsCalls(Kids(tree, prefix, dir), dir, path, 1)
    ELSE IF tree.kind \in {"list", "dict"}
    THEN WalkKidsCalls(Kids(tree, prefix, dir), dir, path, 1)
    ELSE <<>>

WalkKidsCalls(kids, dir, path, n) ==
    IF n > Len(kids) THEN <<>>
    ELSE WalkCalls(kids[n].t, kids[n].pfx, dir, Append(path, kids[n].idx))
         \o WalkKidsCalls(kids, dir, path, n + 1)

\* the module classes: every choice of own methods, with or without the mixin
DispatchWrap(c) ==
    { ListNode(<<c>>), DictNode(<<[k |-> A, v |-> c]>>) }
    \cup { CustomModule(<<Field(F, c)>>, defines, mixin) :
           defines \in SUBSET Methods, mixin \in BOOLEAN }

RECURSIVE DispatchTrees(_)
DispatchTrees(d) ==
    IF d = 0 THEN {PlainArray(Tensor("jnp", <<"t">>))}
    ELSE DispatchTrees(d - 1) \cup UNION { DispatchWrap(c) : c \in DispatchTrees(d - 1) }

DispatchIdle ==
    /\ dp_tree = NoneLeaf
    /\ dp_prefix = None
    /\ dp_entry = "none"
    /\ dp_stage = "idle"
    /\ dp_calls = <<>>

DispatchInit ==
    /\ dp_tree \in DispatchTrees(MaxDepth)
    /\ dp_prefix \in {None, P}
    /\ dp_entry = "none"
    /\ dp_stage = "built"
    /\ dp_calls = <<>>

\* jax_tree_to_state_dict(tree, prefix): a fresh dict, then the update walk
ToStateDict ==
    /\ dp_stage = "built"
    /\ dp_entry' = "jax_tree_to_state_dict"
    /\ dp_calls' = WalkCalls(dp_tree, dp_prefix, "update", <<>>)
    /\ dp_stage' = "walked"
    /\ UNCHANGED <<dp_tree, dp_prefix>>
    /\ UNCHANGED notDispatch

\* update_state_dict_with_jax_tree(tree, state_dict, prefix)
UpdateStateDict ==
    /\ dp_stage = "built"
    /\ dp_entry' = "update_state_dict_with_jax_tree"
    /\ dp_calls' = WalkCalls(dp_tree, dp_prefix, "update", <<>>)
    /\ dp_stage' = "walked"
    /\ UNCHANGED <<dp_tree, dp_prefix>>
    /\ UNCHANGED notDispatch

\* jax_tree_from_state_dict(tree, state_dict, prefix)
FromStateDict ==
    /\ dp_stage = "built"
    /\ dp_entry' = "jax_tree_from_state_dict"
    /\ dp_calls' = WalkCalls(dp_tree, dp_prefix, "from", <<>>)
    /\ dp_stage' = "walked"
    /\ UNCHANGED <<dp_tree, dp_prefix>>
    /\ UNCHANGED notDispatch

DispatchNext == ToStateDict \/ UpdateStateDict \/ FromStateDict

-----------------------------------------------------------------------------
(* flatten_linear_layers and unflatten_linear_layers on a tree with        *)
(* several linear layers: jax.tree_map calls the inner function once per    *)
(* layer, in order, each with the key path of the layer as its prefix.  The *)
(* inner function of unflatten_linear_layers declares                       *)
(* out_dims_first_in_dict nonlocal, so what it assigns stays for the layers *)
(* visited later in the same call.                                          *)

MaxLayers == 2

\* the key path of the i-th layer (1-based) of a list
leaf_key_paths(prefix, i) == apply_prefix(prefix, IntToStr(i - 1))

\* flatten_linear_layers(prefix, tree, out_dims_first_in_dict) for a list
RECURSIVE flatten_linear_tree(_, _, _, _)
flatten_linear_tree(prefix, layers, out_dims_first_in_dict, i) ==
    IF i > Len(layers) THEN <<>>
    ELSE ApplyWrites(
             flatten_linear_layers(leaf_key_paths(prefix, i), layers[i], out_dims_first_in_dict),
             flatten_linear_tree(prefix, layers, out_dims_first_in_dict, i + 1))

\* the closure variable after _unflatten_linear ran on a layer
FlagAfter(flag, layer) ==
    IF flag = "None" THEN (IF layer.out_first THEN "True" ELSE "False") ELSE flag

TreeLayers ==
    { Linear(<<>>, <<Axis("A", a)>>, <<Axis("C", c)>>, out_first, FALSE) :
      a \in AxisSizes, c \in AxisSizes, out_first \in BOOLEAN }

RECURSIVE LayerLists(_)
LayerLists(n) ==
    IF n = 0 THEN {<<>>}
    ELSE {<<>>} \cup { <<l>> \o rest : l \in TreeLayers, rest \in LayerLists(n - 1) }

TreeIdle ==
    /\ ul_layers = <<>>
    /\ ul_prefix = None
    /\ ul_dict = <<>>
    /\ ul_arg = "None"
    /\ ul_flag = "None"
    /\ ul_pos = 0
    /\ ul_stage = "idle"
    /\ ul_out = Ok(<<>>)

TreeInit ==
    /\ ul_layers \in LayerLists(MaxLayers) \ {<<>>}
    /\ ul_prefix \in {None, P}
    /\ ul_dict = <<>>
    /\ ul_arg = "None"
    /\ ul_flag = "None"
    /\ ul_pos = 0
    /\ ul_stage = "built"
    /\ ul_out = Ok(<<>>)

\* flatten_linear_layers(prefix, tree, None): every weight in its own order
TreeFlatten ==
    /\ ul_stage = "built"
    /\ ul_dict' = flatten_linear_tree(ul_prefix, ul_layers, "None", 1)
    /\ ul_stage' = "flat"
    /\ UNCHANGED <<ul_layers, ul_prefix, ul_arg, ul_flag, ul_pos, ul_out>>
    /\ UNCHANGED notTree

\* unflatten_linear_layers(prefix, statedict, tree, out_dims_first_in_dict)
\* is entered: ret_dict = {}
TreeUnflattenCall(out_dims_first_in_dict) ==
    /\ ul_stage = "flat"
    /\ ul_arg' = out_dims_first_in_dict
    /\ ul_flag' = out_dims_first_in_dict
    /\ ul_pos' = 0
    /\ ul_out' = Ok(<<>>)
    /\ ul_stage' = "walking"
    /\ UNCHANGED <<ul_layers, ul_prefix, ul_dict>>
    /\ UNCHANGED notTree

\* _unflatten_linear(layer, prefix) on the next layer
UnflattenLeaf ==
    /\ ul_stage = "walking"
    /\ ul_pos < Len(ul_layers)
    /\ LET layer == ul_layers[ul_pos + 1]
           r == unflatten_linear_layers(leaf_key_paths(ul_prefix, ul_pos + 1),
                                        ul_dict, layer, ul_flag)
       IN  IF r.err # ""
           THEN /\ ul_out' = r
                /\ ul_stage' = "raised"
                /\ UNCHANGED <<ul_flag, ul_pos>>
           ELSE /\ ul_out' = Ok(ApplyWrites(ul_out.dict, r.dict))
                /\ ul_flag' = FlagAfter(ul_flag, layer)
                /\ ul_pos' = ul_pos + 1
                /\ UNCHANGED ul_stage
    /\ UNCHANGED <<ul_layers, ul_prefix, ul_dict, ul_arg>>
    /\ UNCHANGED notTree

\* jax.tree_map is through: return ret_dict
TreeUnflattenReturn ==
    /\ ul_stage = "walking"
    /\ ul_pos = Len(ul_layers)
    /\ ul_stage' = "done"
    /\ UNCHANGED <<ul_layers, ul_prefix, ul_dict, ul_arg, ul_flag, ul_pos, ul_out>>
    /\ UNCHANGED notTree

TreeNext ==
    \/ TreeFlatten
    \/ \E a \in OutFirstArgs : TreeUnflattenCall(a)
    \/ UnflattenLeaf
    \/ TreeUnflattenReturn

-----------------------------------------------------------------------------
(* Specifications: each runs one component and leaves the others idle.     *)

\* save_state_dict across the processes
Init == SaveInit /\ StackIdle /\ CodecIdle /\ LinIdle /\ AccIdle /\ PartIdle /\ NumpyIdle /\ DispatchIdle /\ TreeIdle
Next == SaveNext
Spec == Init /\ [][Next]_vars

\* save_state_dict with a caller that survives a failed save
InitRetry == Init
NextRetry == SaveNext \/ \E p \in Procs : CallerCatches(p)
SpecRetry == InitRetry /\ [][NextRetry]_vars

\* stack_state_dict and unstack_state_dict on a dict
InitStack == SaveIdle /\ StackInit /\ CodecIdle /\ LinIdle /\ AccIdle /\ PartIdle /\ NumpyIdle /\ DispatchIdle /\ TreeIdle
SpecStack == InitStack /\ [][StackNext]_vars

\* the codec: serialize a tree, lose at most one key, load into a donor
InitCodec == SaveIdle /\ StackIdle /\ CodecInit /\ LinIdle /\ AccIdle /\ PartIdle /\ NumpyIdle /\ DispatchIdle /\ TreeIdle
SpecCodec == InitCodec /\ [][CodecNext]_vars

\* flatten a linear layer, then unflatten the result with the layer as exemplar
InitLinear == SaveIdle /\ StackIdle /\ CodecIdle /\ LinInit /\ AccIdle /\ PartIdle /\ NumpyIdle /\ DispatchIdle /\ TreeIdle
SpecLinear == InitLinear /\ [][LinNext]_vars

\* one call of accumulate_gradients_sharded, micro-batch by micro-batch
InitAccum == SaveIdle /\ StackIdle /\ CodecIdle /\ LinIdle /\ AccInit /\ PartIdle /\ NumpyIdle /\ DispatchIdle /\ TreeIdle
SpecAccum == InitAccum /\ [][AccNext]_vars

\* one call of infer_resource_partitions
InitPartition == SaveIdle /\ StackIdle /\ CodecIdle /\ LinIdle /\ AccIdle /\ PartInit /\ NumpyIdle /\ DispatchIdle /\ TreeIdle
SpecPartition == InitPartition /\ [][PartNext]_vars

\* one call of to_numpy_state_dict in one process
InitNumpy ==
    SaveIdle /\ StackIdle /\ CodecIdle /\ LinIdle /\ AccIdle /\ PartIdle /\ NumpyInit /\ DispatchIdle /\ TreeIdle
SpecNumpy == InitNumpy /\ [][NumpyNext]_vars

\* one walk of a tree whose module classes define their own methods
InitDispatch ==
    SaveIdle /\ StackIdle /\ CodecIdle /\ LinIdle /\ AccIdle /\ PartIdle /\ NumpyIdle
    /\ DispatchInit /\ TreeIdle
SpecDispatch == InitDispatch /\ [][DispatchNext]_vars

\* flatten_linear_layers, then unflatten_linear_layers, on a list of layers
InitTree ==
    SaveIdle /\ StackIdle /\ CodecIdle /\ LinIdle /\ AccIdle /\ PartIdle /\ NumpyIdle
    /\ DispatchIdle /\ TreeInit
SpecTree == InitTree /\ [][TreeNext]_vars

-----------------------------------------------------------------------------
(* Claims                                                                  *)

WriteDone(k) == \E i \in 1..Len(files) : files[i].call = k /\ files[i].done

\* ---- gradient accumulation ----

RECURSIVE WeightedValue(_), WeightedGrad(_), TotalSize(_)
WeightedValue(micro) ==
    IF micro = <<>> THEN Frac(0, 1)
    ELSE FracAdd(FracScale(Head(micro).size, Head(micro).value), WeightedValue(Tail(micro)))
WeightedGrad(micro) ==
    IF micro = <<>> THEN Frac(0, 1)
    ELSE FracAdd(FracScale(Head(micro).size, Head(micro).grad), WeightedGrad(Tail(micro)))
TotalSize(micro) == IF micro = <<>> THEN 0 ELSE Head(micro).size + TotalSize(Tail(micro))

BatchSize == Len(ga_batch)
NumMicro == CeilDiv(BatchSize, ga_P)

\* C4: for every batch size N and parallelism P (dividing N or not) the
\* batch is processed as ceil(N/P) sequential micro-batches, all of P
\* examples except possibly the last, that together hold every example
\* exactly once; the value and gradient returned are the size-weighted
\* averages of the micro-batches' values and gradients, and equal the value
\* and gradient of one call of f on the whole batch.
C4_AccumEquivalence ==
    ga_stage \in {"running", "done"} =>
        /\ Len(ga_micro) <= NumMicro
        /\ \A e \in 1..BatchSize : ga_seen[e] = IF e <= ga_pos THEN 1 ELSE 0
        /\ \A i \in 1..Len(ga_micro) :
              ga_micro[i].size = IF i < NumMicro THEN ga_P ELSE BatchSize - (NumMicro - 1) * ga_P
        /\ ga_pos = TotalSize(ga_micro)
        /\ ga_stage = "done" =>
              /\ Len(ga_micro) = NumMicro
              /\ \A e \in 1..BatchSize : ga_seen[e] = 1
              /\ FracEq(ga_result.value, FracDiv(WeightedValue(ga_micro), BatchSize))
              /\ FracEq(ga_result.grad, FracDiv(WeightedGrad(ga_micro), BatchSize))
              /\ FracEq(ga_result.value, GradFn(ga_batch).value)
              /\ FracEq(ga_result.grad, GradFn(ga_batch).grad)

\* a batch of 4 has been accumulated 3 at a time: micro-batches of 3 and 1
\* whose values and gradients differ
C4_Witness ==
    /\ ga_stage = "done"
    /\ BatchSize = 4 /\ ga_P = 3
    /\ Len(ga_micro) = 2
    /\ ga_micro[1].size = 3 /\ ga_micro[2].size = 1
    /\ ~FracEq(ga_micro[1].value, ga_micro[2].value)
    /\ ~FracEq(ga_micro[1].grad, ga_micro[2].grad)
    /\ FracEq(ga_result.value, GradFn(ga_batch).value)

\* ---- to_numpy_state_dict ----

TnFieldsOf == 1..Len(tn_model.fields)

TnIsTensor(i) == tn_model.fields[i].value.kind # "none"

TnOnHost(i) ==
    /\ tn_cur.fields[i].value.kind = tn_model.fields[i].value.kind
    /\ TnIsTensor(i) =>
          /\ tn_cur.fields[i].value.array.lib = "np"
          /\ tn_cur.fields[i].value.array.data = tn_model.fields[i].value.array.data

TnHowOf(i) == (CHOOSE j \in 1..Len(tn_how) : tn_how[j].field = i)

\* C13: the leaves are brought to the host in order, each in the way its
\* placement asks for (a numpy array as it is, an array this process
\* addresses by a copy, an array spread over processes by an all-gather);
\* to_state_dict starts only when every leaf is on the host; the dict
\* returned holds only host arrays with the contents of the model's
\* leaves; and no dict comes out of a call whose gather failed.
C13_GatherBeforeSerialize ==
    tn_stage # "idle" =>
        /\ \A i \in TnFieldsOf :
              /\ i <= tn_pos => TnOnHost(i)
              /\ i > tn_pos => tn_cur.fields[i] = tn_model.fields[i]
              /\ i <= tn_pos /\ TnIsTensor(i) =>
                    /\ \E j \in 1..Len(tn_how) : tn_how[j].field = i
                    /\ tn_how[TnHowOf(i)].how =
                          IF tn_model.fields[i].value.array.lib = "np" THEN "as-is"
                          ELSE IF tn_model.fields[i].value.array.lib = "sharded" THEN "allgather"
                          ELSE "copy"
        /\ \A j, k \in 1..Len(tn_how) : j < k => tn_how[j].field < tn_how[k].field
        /\ tn_stage \in {"serializing", "returned"} => \A i \in TnFieldsOf : TnOnHost(i)
        /\ tn_stage = "returned" =>
              /\ \A e \in 1..Len(tn_dict) : tn_dict[e].v.lib = "np"
              /\ \A i \in TnFieldsOf :
                    TnIsTensor(i) =>
                        LET k == apply_prefix(tn_prefix, tn_model.fields[i].name)
                        IN  /\ HasKey(tn_dict, k)
                            /\ DictGet(tn_dict, k).data = tn_model.fields[i].value.array.data
        /\ tn_stage # "returned" => tn_dict = <<>>
        /\ tn_stage = "raised" => \E i \in TnFieldsOf : ~TnOnHost(i)

\* a model with a leaf spread over processes, a leaf on local devices and
\* a numpy leaf went through to_numpy_state_dict under 'p'
C13_Witness ==
    /\ tn_stage = "returned" /\ tn_prefix = P
    /\ Len(tn_model.fields) = 3
    /\ tn_model.fields[1].value.kind = "named"
    /\ tn_model.fields[1].value.array.lib = "sharded"
    /\ tn_model.fields[2].value.kind = "plain"
    /\ tn_model.fields[2].value.array.lib = "dev"
    /\ tn_model.fields[3].value.kind = "plain"
    /\ tn_model.fields[3].value.array.lib = "np"
    /\ tn_how = <<[field |-> 1, how |-> "allgather"], [field |-> 2, how |-> "copy"],
                  [field |-> 3, how |-> "as-is"]>>
    /\ Len(tn_dict) = 3

\* ---- partition inference ----

\* the leaves of a tree and the specs returned for them, by path
RECURSIVE PartPaths(_)
PartPaths(tree) ==
    IF tree.kind # "module" THEN {<<>>}
    ELSE UNION { { <<i>> \o q : q \in PartPaths(tree.fields[i]) } : i \in 1..Len(tree.fields) }

RECURSIVE PartAt(_, _)
PartAt(tree, path) ==
    IF path = <<>> THEN tree ELSE PartAt(tree.fields[Head(path)], Tail(path))

TestMapping == [n \in {"dim2", "dim3"} |-> IF n = "dim2" THEN DATA ELSE MODEL]

\* C9: every named leaf gets a partition spec with one entry per axis, in
\* the leaf's axis order, that is the mesh axis the mapping binds to the
\* axis name, or None when the name is unbound; axes (dim1, dim2, dim3)
\* with dim2 -> DATA and dim3 -> MODEL give (None, DATA, MODEL); every plain
\* leaf is replicated whatever the mapping.
C9_PartitionInference ==
    pt_stage = "inferred" =>
        \A path \in PartPaths(pt_tree) :
            LET leaf == PartAt(pt_tree, path)
                spec == PartAt(pt_specs, path)
            IN  /\ leaf.kind = "named" =>
                      /\ spec.kind = "spec"
                      /\ Len(spec.entries) = Len(leaf.axes)
                      /\ \A i \in 1..Len(leaf.axes) :
                            /\ leaf.axes[i] \in DOMAIN pt_mapping =>
                                  spec.entries[i] = pt_mapping[leaf.axes[i]]
                            /\ leaf.axes[i] \notin DOMAIN pt_mapping =>
                                  spec.entries[i] = Unbound
                      /\ leaf.axes = <<"dim1", "dim2", "dim3">> /\ pt_mapping = TestMapping =>
                            spec.entries = <<Unbound, DATA, MODEL>>
                /\ leaf.kind = "plain" => spec = Replicated

\* the tree of the test: a named leaf (dim1, dim2, dim3) and a plain leaf
\* inside a nested module, with dim2 -> DATA and dim3 -> MODEL
C9_Witness ==
    /\ pt_stage = "inferred"
    /\ pt_mapping = TestMapping
    /\ pt_tree = PartModule(<<NamedLeaf(<<"dim1", "dim2", "dim3">>), PartModule(<<UnnamedLeaf>>)>>)
    /\ pt_specs.fields[1] = PartitionSpec(<<Unbound, DATA, MODEL>>)
    /\ pt_specs.fields[2].fields[1] = Replicated

\* ---- linear layers ----

LinWeightKey == apply_prefix(ln_prefix, WEIGHT)
LinBiasKey == apply_prefix(ln_prefix, BIAS)

\* C3: for every linear layer with non-empty In and Out groups (one or two
\* axes each, with or without a leading extra axis, with or without bias)
\* and every out_first in {True, False}, unflattening the flattened dict
\* with the same out_first and the layer as exemplar gives a weight with the
\* shape and the elements of L.weight in L's own layout, and the bias
\* likewise (no bias entry when L has none).
C3_FlattenUnflatten ==
    ln_stage = "done" /\ ln_arg2 = ln_arg /\ ln_arg \in {"True", "False"} =>
        /\ ln_out.err = ""
        /\ HasKey(ln_out.dict, LinWeightKey)
        /\ DictGet(ln_out.dict, LinWeightKey) = RawOf(ln_layer.weight)
        /\ IF ln_layer.bias = NoBias THEN ~HasKey(ln_out.dict, LinBiasKey)
           ELSE /\ HasKey(ln_out.dict, LinBiasKey)
                /\ DictGet(ln_out.dict, LinBiasKey) = RawOf(ln_layer.bias)

\* an in-first layer with two input axes, two output axes, an extra axis
\* and a bias, all of size 2, went through the out-first flat form, in
\* which the elements stand in another order than in the layer
C3_Witness ==
    /\ ln_stage = "done" /\ ln_arg2 = ln_arg /\ ln_arg = "True"
    /\ ~ln_layer.out_first
    /\ Len(ln_layer.In) = 2 /\ Len(ln_layer.Out) = 2
    /\ \A i \in 1..Len(ln_layer.weight.axes) : ln_layer.weight.axes[i].size = 2
    /\ Len(ln_layer.weight.axes) = 5
    /\ ln_layer.bias # NoBias
    /\ ln_prefix = P
    /\ DictGet(ln_flat, LinWeightKey).shape = <<2, 4, 4>>
    /\ DictGet(ln_flat, LinWeightKey).data # ln_layer.weight.data
    /\ ln_out.err = ""

\* ---- trees of linear layers ----

\* the i-th layer's flat weight read with that layer's own out_first
OwnOrientation(i) ==
    unflatten_linear_layers(leaf_key_paths(ul_prefix, i), ul_dict, ul_layers[i], "None")

TreeWeightKey(i) == apply_prefix(leaf_key_paths(ul_prefix, i), WEIGHT)

\* C17: called with out_dims_first_in_dict = None on a tree of several
\* layers, unflatten_linear_layers reads each layer's flat weight with that
\* layer's own out_first, whatever the flags of the layers visited before
\* it in the same call.
C17_OwnOrientation ==
    ul_arg = "None" /\ ul_stage \in {"walking", "done", "raised"} =>
        /\ ul_stage = "raised" => ul_out = OwnOrientation(ul_pos + 1)
        /\ \A i \in 1..ul_pos :
              /\ HasKey(ul_out.dict, TreeWeightKey(i))
              /\ OwnOrientation(i).err = ""
              /\ DictGet(ul_out.dict, TreeWeightKey(i))
                     = DictGet(OwnOrientation(i).dict, TreeWeightKey(i))

\* ---- the codec ----

\* every node of a tree in the order of the walk, with its path (the
\* positions leading to it) and its key: the path's list indices, dict keys
\* and field names, renamed by each module's key map, joined with '.'
RECURSIVE Visits(_, _, _), VisitsFrom(_, _, _, _)
Visits(tree, prefix, path) ==
    <<[path |-> path, pfx |-> prefix, t |-> tree]>>
        \o (IF IsLeaf(tree) THEN <<>> ELSE VisitsFrom(tree, prefix, path, 1))

VisitsFrom(tree, prefix, path, i) ==
    IF tree.kind = "list"
    THEN IF i > Len(tree.items) THEN <<>>
         ELSE Visits(tree.items[i], apply_prefix(prefix, IntToStr(i - 1)), Append(path, i))
                \o VisitsFrom(tree, prefix, path, i + 1)
    ELSE IF tree.kind = "dict"
    THEN IF i > Len(tree.items) THEN <<>>
         ELSE Visits(tree.items[i].v, apply_prefix(prefix, tree.items[i].k), Append(path, i))
                \o VisitsFrom(tree, prefix, path, i + 1)
    ELSE IF i > Len(tree.fields) THEN <<>>
         ELSE (IF tree.fields[i].static THEN <<>>
               ELSE Visits(tree.fields[i].value,
                           apply_prefix(prefix, KeyMapGet(tree.key_map, tree.fields[i].name)),
                           Append(path, i)))
                \o VisitsFrom(tree, prefix, path, i + 1)

IsTensorLeaf(t) == t.kind \in {"named", "plain"}

\* the tree with every leaf held as a jax array of the same contents
RECURSIVE AsJnp(_)
AsJnp(tree) ==
    IF IsTensorLeaf(tree) THEN [tree EXCEPT !.array = jnp_array(tree.array)]
    ELSE IF tree.kind = "list"
    THEN [tree EXCEPT !.items = [i \in 1..Len(tree.items) |-> AsJnp(tree.items[i])]]
    ELSE IF tree.kind = "dict"
    THEN [tree EXCEPT !.items =
            [i \in 1..Len(tree.items) |->
                [k |-> tree.items[i].k, v |-> AsJnp(tree.items[i].v)]]]
    ELSE IF tree.kind = "module"
    THEN [tree EXCEPT !.fields =
            [i \in 1..Len(tree.fields) |->
                IF tree.fields[i].static THEN tree.fields[i]
                ELSE [tree.fields[i] EXCEPT !.value = AsJnp(tree.fields[i].value)]]]
    ELSE tree

TreeVisits == Visits(cd_tree, cd_prefix, <<>>)
DonorVisits == Visits(cd_donor, cd_prefix, <<>>)

NoNoneLeaf == \A i \in 1..Len(TreeVisits) : TreeVisits[i].t.kind # "none"

\* the loader received the dict exactly as the serializer produced it
DictIntact == cd_dict = ApplyWrites(<<>>, cd_saved.log)

\* the keys the leaves were written under are pairwise distinct
DistinctKeys ==
    \A i, j \in 1..Len(cd_saved.log) : cd_saved.log[i].k = cd_saved.log[j].k => i = j

\* the loader returned T, leaf for leaf
LoadedIsTree == cd_loaded.err = "" /\ cd_loaded.tree = AsJnp(cd_tree)

\* C1 as stated: for every tree without None leaves and every prefix for
\* which serialization succeeds, loading the serialized dict into a donor
\* of the same structure gives back the tree, leaf for leaf.
C1_AsStated ==
    cd_stage = "loaded" /\ cd_saved.err = "" /\ DictIntact /\ NoNoneLeaf
        => LoadedIsTree

\* C1 (amended): the same, for the trees whose leaves are serialized under
\* pairwise distinct keys.
C1_RoundTrip ==
    cd_stage = "loaded" /\ cd_saved.err = "" /\ DictIntact /\ NoNoneLeaf /\ DistinctKeys
        => LoadedIsTree

\* a tree of numpy leaves with a key-mapped module inside another container
\* has been serialized under 'p' and loaded back
C1_Witness ==
    /\ cd_stage = "loaded" /\ cd_saved.err = "" /\ DictIntact /\ NoNoneLeaf /\ DistinctKeys
    /\ cd_prefix = P
    /\ Len(cd_saved.log) >= 3
    /\ cd_tree.kind = "list"
    /\ \E i \in 1..Len(TreeVisits) :
          /\ TreeVisits[i].t.kind = "module"
          /\ TreeVisits[i].t.key_map # <<>>
          /\ TreeVisits[i].t.fields[1].value.kind = "named"
          /\ TreeVisits[i].t.fields[1].value.array.lib = "np"

\* the tensor leaves of the template whose key is not in the dict, and
\* those that have no key at all (a null prefix reached the leaf)
MissingLeaves ==
    {i \in 1..Len(DonorVisits) :
        /\ IsTensorLeaf(DonorVisits[i].t)
        /\ DonorVisits[i].pfx # None
        /\ ~HasKey(cd_dict, DonorVisits[i].pfx)}
KeylessLeaves ==
    {i \in 1..Len(DonorVisits) :
        IsTensorLeaf(DonorVisits[i].t) /\ DonorVisits[i].pfx = None}

\* C8 as stated: if the key of some tensor leaf of the template is absent
\* from the dict, jax_tree_from_state_dict raises a lookup error.
C8_AsStated ==
    cd_stage = "loaded" /\ MissingLeaves # {} => cd_loaded.err = "KeyError"

\* C8 (amended): if the key of some tensor leaf of the template is absent
\* from the dict, jax_tree_from_state_dict returns no tree: it raises the
\* lookup error, unless a tensor leaf that has no key (one reached with a
\* null prefix) is visited before the first leaf whose key is absent, in
\* which case it raises the ValueError of that leaf.
C8_MissingKey ==
    cd_stage = "loaded" /\ MissingLeaves # {} =>
        cd_loaded.err =
            IF \E i \in KeylessLeaves : \A j \in MissingLeaves : i < j
            THEN "ValueError" ELSE "KeyError"

\* a key was removed from the dict of a tree serialized under 'p', and the
\* load raised the lookup error
C8_Witness ==
    /\ cd_stage = "loaded"
    /\ cd_prefix = P
    /\ cd_saved.err = "" /\ ~DictIntact
    /\ Cardinality(MissingLeaves) = 1
    /\ Len(cd_dict) >= 1
    /\ cd_loaded.err = "KeyError"

\* the keys of the tensor leaves of the tree: the keys an update may write
TensorKeys ==
    { TreeVisits[i].pfx : i \in { n \in 1..Len(TreeVisits) :
                                    IsTensorLeaf(TreeVisits[n].t) /\ TreeVisits[n].pfx # None } }

\* the keys of the None leaves that are the key of no tensor leaf
NoneOnlyKeys ==
    { TreeVisits[i].pfx : i \in { n \in 1..Len(TreeVisits) :
                                    TreeVisits[n].t.kind = "none" /\ TreeVisits[n].pfx # None } }
        \ TensorKeys

\* C11: update_state_dict_with_jax_tree(tree, D, prefix) changes D only at
\* the keys of the non-None, non-static leaves of tree: every other entry
\* of D keeps its key and value (an entry under the key of a None leaf or
\* of a static field among them), and no entry appears under another key.
C11_UpdateFrame ==
    cd_stage = "updated" =>
        /\ \A i \in 1..Len(cd_pre) :
              cd_pre[i].k \notin TensorKeys =>
                  HasKey(cd_dict, cd_pre[i].k) /\ DictGet(cd_dict, cd_pre[i].k) = cd_pre[i].v
        /\ \A i \in 1..Len(cd_dict) :
              ~HasKey(cd_pre, cd_dict[i].k) => cd_dict[i].k \in TensorKeys
        /\ \A k \in NoneOnlyKeys :
              /\ HasKey(cd_pre, k) => HasKey(cd_dict, k) /\ DictGet(cd_dict, k) = OldTensor
              /\ ~HasKey(cd_pre, k) => ~HasKey(cd_dict, k)
        /\ cd_saved.err = "" =>
              \A k \in TensorKeys : HasKey(cd_dict, k) /\ DictGet(cd_dict, k) # OldTensor

\* a dict holding entries under the key of a tensor leaf, of a None leaf,
\* of a static field and under an unrelated key has been updated from a
\* module under 'p': the first was overwritten, the others were kept
C11_Witness ==
    /\ cd_stage = "updated" /\ cd_saved.err = "" /\ cd_prefix = P
    /\ cd_tree.kind = "module" /\ cd_tree.fields[2].value.kind = "none"
    /\ Len(cd_pre) >= 4
    /\ DictGet(cd_pre, Join(<<P, F>>)) = OldTensor
    /\ DictGet(cd_dict, Join(<<P, F>>)) # OldTensor
    /\ DictGet(cd_dict, Join(<<P, G>>)) = OldTensor
    /\ DictGet(cd_dict, Join(<<P, H>>)) = OldTensor
    /\ DictGet(cd_dict, Q) = OldTensor

\* the tensor leaves of the tree, as positions in the walk
TensorLeaves ==
    { n \in 1..Len(TreeVisits) : IsTensorLeaf(TreeVisits[n].t) }

Serialized == cd_stage = "saved" /\ cd_saved.err = "" /\ DictIntact

\* C12 as stated: in the dict jax_tree_to_state_dict produces no two leaves
\* share a key, and there are as many entries as non-None, non-static
\* leaves.
C12_AsStated ==
    Serialized => DistinctKeys /\ Len(cd_dict) = Cardinality(TensorLeaves)

\* C12 (amended): every non-None, non-static leaf is stored exactly once,
\* under its computed key; the keys of the dict are the computed keys of
\* these leaves, each once; under a key that several leaves compute the
\* dict holds the value of the last of them in the walk; so there are as
\* many entries as leaves exactly when the computed keys are distinct.
C12_KeysOfLeaves ==
    Serialized =>
        /\ Len(cd_saved.log) = Cardinality(TensorLeaves)
        /\ \A n \in TensorLeaves :
              \E i \in 1..Len(cd_saved.log) :
                  cd_saved.log[i] = [k |-> TreeVisits[n].pfx, v |-> TreeVisits[n].t.array,
                                     path |-> TreeVisits[n].path]
        /\ DictKeys(cd_dict) = TensorKeys
        /\ Len(cd_dict) = Cardinality(TensorKeys)
        /\ \A n \in TensorLeaves :
              (\A m \in TensorLeaves : TreeVisits[m].pfx = TreeVisits[n].pfx => m <= n)
                  => DictGet(cd_dict, TreeVisits[n].pfx) = TreeVisits[n].t.array
        /\ (Len(cd_dict) = Cardinality(TensorLeaves)) <=> DistinctKeys

\* a module that renames field f to the name of its sibling g, inside a
\* list, has been serialized under 'p': two leaves, one entry, holding g
C12_Witness ==
    /\ Serialized /\ cd_prefix = P
    /\ ~DistinctKeys
    /\ cd_tree.kind = "list" /\ Len(cd_tree.items) = 1
    /\ cd_tree.items[1].kind = "module"
    /\ cd_tree.items[1].key_map = <<[k |-> F, v |-> G]>>
    /\ Cardinality(TensorLeaves) = 2
    /\ Len(cd_dict) = 1
    /\ cd_dict[1] = [k |-> Join(<<P, <<"0">>, G>>), v |-> cd_tree.items[1].fields[2].value.array]

\* the tensor leaves of the tree that the walk reaches with prefix None
KeylessTreeLeaves ==
    { n \in TensorLeaves : TreeVisits[n].pfx = None }

\* C14: a bare tensor leaf (named or plain) reached with prefix None makes
\* the call raise, in both directions.  Writing to a dict, fresh or the
\* caller's, no entry is stored for that leaf; loading, no tree is
\* returned, and the error is the leaf's ValueError unless the key of an
\* earlier leaf was missing.
C14_NullPrefix ==
    /\ cd_stage \in {"saved", "updated", "loaded"} /\ KeylessTreeLeaves # {} =>
          /\ cd_saved.err \in {"AssertionError", "ValueError"}
          /\ \A n \in KeylessTreeLeaves :
                \A i \in 1..Len(cd_saved.log) : cd_saved.log[i].path # TreeVisits[n].path
          /\ ~HasKey(cd_dict, None)
          /\ \A i \in 1..Len(cd_dict) :
                \/ HasKey(cd_pre, cd_dict[i].k) /\ DictGet(cd_pre, cd_dict[i].k) = cd_dict[i].v
                \/ \E j \in 1..Len(cd_saved.log) : cd_saved.log[j].k = cd_dict[i].k
    /\ cd_stage = "loaded" /\ KeylessLeaves # {} =>
          /\ cd_loaded.err \in {"ValueError", "KeyError"}
          /\ cd_loaded.tree = NoneLeaf
          /\ (\E i \in KeylessLeaves : \A j \in MissingLeaves : i < j)
                => cd_loaded.err = "ValueError"

\* a module whose key map sends field f to None was serialized and loaded
\* with prefix None: both calls raised at f, before the sibling g
C14_Witness ==
    /\ cd_stage = "loaded" /\ cd_prefix = None
    /\ cd_tree.kind = "module" /\ cd_tree.key_map = <<[k |-> F, v |-> None]>>
    /\ cd_tree.fields[1].value.kind = "named"
    /\ cd_tree.fields[2].value.kind = "plain"
    /\ cd_saved = [err |-> "AssertionError", log |-> <<>>]
    /\ cd_dict = <<>>
    /\ cd_loaded = [err |-> "ValueError", tree |-> NoneLeaf]

\* the non-static fields of the modules of a tree that the module's key map
\* renames to a name: the path of the field's value, the key 'prefix.g' it
\* is renamed to, and the key 'prefix.f' of its own name
RenamedFields(visits) ==
    UNION { { [path |-> Append(visits[i].path, j),
               value |-> visits[i].t.fields[j].value,
               renamed |-> apply_prefix(visits[i].pfx,
                              DictGet(visits[i].t.key_map, visits[i].t.fields[j].name)),
               own |-> apply_prefix(visits[i].pfx, visits[i].t.fields[j].name)] :
              j \in { n \in 1..Len(visits[i].t.fields) :
                        /\ ~visits[i].t.fields[n].static
                        /\ HasKey(visits[i].t.key_map, visits[i].t.fields[n].name)
                        /\ DictGet(visits[i].t.key_map, visits[i].t.fields[n].name) # None } } :
            i \in { n \in 1..Len(visits) : visits[n].t.kind = "module" } }

Under(k, key) == k = key \/ StartsWith(k, key \o Dot)

IsPathPrefix(p, q) == Len(p) <= Len(q) /\ SubSeq(q, 1, Len(p)) = p

NodeAt(visits, path) == visits[CHOOSE i \in 1..Len(visits) : visits[i].path = path].t

DirectionMethod(entry) ==
    IF entry = "jax_tree_to_state_dict" THEN "to_state_dict"
    ELSE IF entry = "update_state_dict_with_jax_tree" THEN "update_state_dict"
    ELSE "from_state_dict"

DirectionOf(entry) == IF entry = "jax_tree_from_state_dict" THEN "from" ELSE "update"

\* the calls of a walk that hands every node defining the direction's
\* method to that method and recurses structurally through the others
RECURSIVE DirectionCalls(_, _, _, _), DirectionKidsCalls(_, _, _, _)
DirectionCalls(tree, prefix, entry, path) ==
    IF tree.kind = "module" /\ DirectionMethod(entry) \in tree.defines
    THEN <<[method |-> DirectionMethod(entry), path |-> path, prefix |-> prefix]>>
    ELSE IF tree.kind \in {"module", "list", "dict"}
    THEN DirectionKidsCalls(Kids(tree, prefix, DirectionOf(entry)), entry, path, 1)
    ELSE <<>>

DirectionKidsCalls(kids, entry, path, n) ==
    IF n > Len(kids) THEN <<>>
    ELSE DirectionCalls(kids[n].t, kids[n].pfx, entry, Append(path, kids[n].idx))
         \o DirectionKidsCalls(kids, entry, path, n + 1)

\* C16: a walk calls, at every depth, the own method of each module node
\* that defines the method of the direction walked (to_state_dict for
\* jax_tree_to_state_dict, update_state_dict for an update, from_state_dict
\* for a load) with the node's computed prefix, and recurses structurally
\* only through nodes that define no such method.
C16_CustomDispatch ==
    dp_stage = "walked" =>
        dp_calls = DirectionCalls(dp_tree, dp_prefix, dp_entry, <<>>)

\* the None leaves of the template that the loader reaches with a key
NoneLeavesWithKey ==
    { i \in 1..Len(DonorVisits) :
        DonorVisits[i].t.kind = "none" /\ DonorVisits[i].pfx # None }

LoadedAt(path) == NodeAt(Visits(cd_loaded.tree, cd_prefix, <<>>), path)

\* C18: for a None leaf of the template reached with a non-null prefix,
\* jax_tree_from_state_dict returns None when the computed key is absent
\* from the dict, and when it is present the dict's value coerced to a
\* tensor as for a plain tensor leaf (jnp.array).
C18_NoneLeafLoad ==
    cd_stage = "loaded" /\ cd_loaded.err = "" =>
        \A i \in NoneLeavesWithKey :
            LoadedAt(DonorVisits[i].path) =
                IF HasKey(cd_dict, DonorVisits[i].pfx)
                THEN PlainArray(jnp_array(DictGet(cd_dict, DonorVisits[i].pfx)))
                ELSE NoneLeaf

\* ---- stack / unstack ----

StackBlocks(d, prefix) == {i \in 1..Len(d) : BlockMatch(d[i].k, prefix).matched}

\* the entries of d that are blocks of the same <rest> as entry i
SameRest(d, prefix, i) ==
    {j \in StackBlocks(d, prefix) :
        BlockMatch(d[j].k, prefix).block_key = BlockMatch(d[i].k, prefix).block_key}

\* the blocks of entry i's <rest> carry exactly the indices 0..N-1, once each
DenseAt(d, prefix, i) ==
    {BlockMatch(d[j].k, prefix).block_idx : j \in SameRest(d, prefix, i)}
        = 0..(Cardinality(SameRest(d, prefix, i)) - 1)

\* every key under 'p.' holds a sequence, all of one length
StackedInput(d, prefix) ==
    \A i, j \in 1..Len(d) :
        StartsWith(d[i].k, prefix \o Dot) /\ StartsWith(d[j].k, prefix \o Dot)
            => /\ d[i].v.nd >= 1
               /\ Len(d[i].v.rows) = Len(d[j].v.rows)

\* the block keys cover 0..N-1 for every <rest>, with one N, and hold
\* tensors of one shape per <rest>
UnstackedInput(d, prefix) ==
    \A i \in StackBlocks(d, prefix) :
        /\ DenseAt(d, prefix, i)
        /\ d[i].v # NoneV
        /\ \A j \in StackBlocks(d, prefix) :
              /\ Cardinality(SameRest(d, prefix, j)) = Cardinality(SameRest(d, prefix, i))
              /\ j \in SameRest(d, prefix, i) => Shape(d[j].v) = Shape(d[i].v)

\* the first call succeeded and, once the second call is made, it returned
\* a dict with exactly the keys and values of the input
RoundTrips ==
    /\ st_res[1].err = ""
    /\ Len(st_ops) = 2 => st_res[2].err = "" /\ SameDict(st_res[2].dict, st_in)

\* C2 as stated: with a non-null prefix, unstack-then-stack returns a dict
\* whose keys under 'p.' hold sequences of one length N, and
\* stack-then-unstack returns a dict whose block keys cover 0..N-1.
C2_AsStated ==
    st_prefix # None /\ st_ops # <<>> =>
        /\ st_ops[1] = "unstack" /\ StackedInput(st_in, st_prefix) => RoundTrips
        /\ st_ops[1] = "stack" /\ UnstackedInput(st_in, st_prefix) => RoundTrips

\* the sequences under 'p.' are not empty
NonEmptyRows(d, prefix) ==
    \A i \in 1..Len(d) : StartsWith(d[i].k, prefix \o Dot) => Len(d[i].v.rows) >= 1

\* every key under 'p.' is a block key whose index is written as str(i)
OnlyCanonicalBlocks(d, prefix) ==
    \A i \in 1..Len(d) :
        StartsWith(d[i].k, prefix \o Dot) =>
            LET m == BlockMatch(d[i].k, prefix)
            IN  /\ m.matched
                /\ d[i].k = prefix \o Dot \o IntToStr(m.block_idx) \o Dot \o m.block_key

\* C2 (amended): with a non-null prefix p, (a) unstack-then-stack returns
\* the keys and values of a dict whose keys under 'p.' hold sequences of one
\* length N >= 1; (b) stack-then-unstack returns the keys and values of a
\* dict whose keys under 'p.' are all block keys 'p.<i>.<rest>' with <i>
\* written as str(i), covering 0..N-1 for each <rest> and holding tensors
\* of one shape per <rest>.  Keys not under 'p.' are arbitrary in both.
C2_RoundTrip ==
    st_prefix # None /\ st_ops # <<>> =>
        /\ st_ops[1] = "unstack" /\ StackedInput(st_in, st_prefix)
                                 /\ NonEmptyRows(st_in, st_prefix) => RoundTrips
        /\ st_ops[1] = "stack" /\ UnstackedInput(st_in, st_prefix)
                               /\ OnlyCanonicalBlocks(st_in, st_prefix) => RoundTrips

\* stack-then-unstack has run on blocks 1 and 0 of one <rest>, inserted in
\* that order
C2_Witness ==
    /\ st_prefix = P
    /\ st_ops = <<"stack", "unstack">>
    /\ UnstackedInput(st_in, st_prefix) /\ OnlyCanonicalBlocks(st_in, st_prefix)
    /\ Len(st_in) = 2 /\ StackBlocks(st_in, st_prefix) = {1, 2}
    /\ BlockMatch(st_in[1].k, st_prefix).block_idx = 1
    /\ SameRest(st_in, st_prefix, 1) = {1, 2}

\* C7: whenever the indices of some <rest> are not exactly 0..N-1, once
\* each, stack_state_dict raises and returns no dict.
C7_RejectsNonDense ==
    /\ st_ops # <<>>
    /\ st_ops[1] = "stack"
    /\ \E i \in StackBlocks(st_in, st_prefix) : ~DenseAt(st_in, st_prefix, i)
    => st_res[1].err # ""

\* every value that is not None is a sequence, all of one length
CommonLength(d) ==
    \A i, j \in 1..Len(d) :
        d[i].v # NoneV /\ d[j].v # NoneV =>
            /\ d[i].v.nd >= 1
            /\ Len(d[i].v.rows) = Len(d[j].v.rows)

\* C19: with prefix = None in both calls, unstack_state_dict followed by
\* stack_state_dict returns the keys and values of the input, for every
\* dict whose non-None values are sequences of one common length: the keys
\* unstack_state_dict(D, None) produces are those stack_state_dict(., None)
\* takes for block keys.
C19_DefaultPrefix ==
    st_prefix = None /\ st_ops # <<>> /\ st_ops[1] = "unstack" /\ CommonLength(st_in) =>
        /\ RoundTrips
        /\ \A i \in 1..Len(st_res[1].dict) :
              st_res[1].dict[i].v # NoneV =>
                  BlockMatch(st_res[1].dict[i].k, st_prefix).matched

\* ---- save_state_dict ----

FailedWrites == { i \in 1..Len(files) : ~files[i].done }
DoneWrites == { i \in 1..Len(files) : files[i].done }

C15_State ==
    \* process 0 enters a barrier only after a write that completed, and its
    \* counter counts the calls that returned
    /\ Len(entered[0]) <= Cardinality(DoneWrites)
    /\ Cardinality(DoneWrites) <= Len(entered[0]) + 1
    /\ _GLOBAL_SAVE_COUNT[0] = returned[0]
    /\ pc[0] = "raised" => Len(entered[0]) = Cardinality(DoneWrites)
    \* one write per call: no retry inside save_state_dict
    /\ \A i, j \in 1..Len(files) : files[i].call = files[j].call => i = j
    \* a worker is past a barrier only if process 0 entered that barrier,
    \* under the same name
    /\ \A p \in Procs : \A g \in 1..passed[p] :
          Len(entered[0]) >= g /\ entered[0][g] = entered[p][g]
    \* outside the barrier, the name process 0 presents next is the one the
    \* blocked workers hold
    /\ \A p \in Procs :
          pc[0] \notin {"wait", "inc"} /\ pc[p] = "wait"
          /\ Len(entered[p]) = Len(entered[0]) + 1 =>
              entered[p][Len(entered[p])] = BarrierName(_GLOBAL_SAVE_COUNT[0])

C15_FailStep ==
    pc[0] = "writing" /\ pc'[0] # "writing" /\ files'[Len(files')].done = FALSE =>
        /\ pc'[0] = "raised"
        /\ UNCHANGED <<_GLOBAL_SAVE_COUNT, entered, passed, returned, files, calls>>

\* C15: when save_file raises in process 0 the exception leaves
\* save_state_dict: no second write for that call, no barrier entered, the
\* counter unchanged.  A worker waiting in the barrier of that save leaves
\* it only once process 0 has entered a barrier, which it then does under
\* the same name, its counter being unchanged.
C15_WriteFailure == []C15_State /\ [][C15_FailStep]_vars

\* the first write of process 0 failed; the workers waited in the barrier
\* 'local 0' until process 0, called again, wrote and entered it
C15_Witness ==
    /\ Len(files) = 2 /\ ~files[1].done /\ files[2].done
    /\ calls[0] = 2
    /\ entered[0] = <<BarrierName(0)>>
    /\ \A p \in Procs : ~IsCoordinator(p) => calls[p] = 1 /\ passed[p] = 1 /\ returned[p] = 1

\* C5: the file of the k-th save is written at most once and only by process
\* 0; no process has passed the barrier of its k-th save, or returned from
\* it, unless the coordinator's write for that save is complete.
C5_SaveOrdering ==
    /\ \A i \in 1..Len(files) : files[i].proc = 0
    /\ \A i, j \in 1..Len(files) : files[i].call = files[j].call => i = j
    /\ \A p \in Procs : \A k \in 1..passed[p] : WriteDone(k)
    /\ \A p \in Procs : \A k \in 1..returned[p] : WriteDone(k)

\* a worker has returned from its second save
C5_Witness ==
    \E p \in Procs : ~IsCoordinator(p) /\ returned[p] = 2 /\ WriteDone(2)

\* C6: the counter of every process starts at 0, never decreases, and has
\* grown by exactly one for each call that returned; the barrier names one
\* process presents are pairwise distinct, and the i-th barrier is entered
\* under the same name by every process.
C6_CounterState ==
    /\ \A p \in Procs : _GLOBAL_SAVE_COUNT[p] = returned[p]
    /\ \A p \in Procs : \A i, j \in 1..Len(entered[p]) :
            entered[p][i] = entered[p][j] => i = j
    /\ \A p, q \in Procs : \A i \in 1..Len(entered[p]) :
            i <= Len(entered[q]) => entered[p][i] = entered[q][i]

C6_CounterStep ==
    \A p \in Procs :
        /\ _GLOBAL_SAVE_COUNT'[p] >= _GLOBAL_SAVE_COUNT[p]
        /\ returned'[p] = returned[p] + 1
              <=> _GLOBAL_SAVE_COUNT'[p] = _GLOBAL_SAVE_COUNT[p] + 1

C6_SaveCounter ==
    /\ (\A p \in Procs : _GLOBAL_SAVE_COUNT[p] = 0 /\ returned[p] = 0)
    /\ []C6_CounterState
    /\ [][C6_CounterStep]_vars

\* every process has completed two saves and presented two barrier names
C6_Witness ==
    \A p \in Procs : _GLOBAL_SAVE_COUNT[p] = 2 /\ Len(entered[p]) = 2

=============================================================================
